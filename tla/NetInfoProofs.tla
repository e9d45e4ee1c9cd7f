----------------------------- MODULE NetInfoProofs -----------------------------
(***************************************************************************)
(* What the two network files of a container hold, for any devices, port   *)
(* numbers, invocations, failures and changes of the host.                 *)
(***************************************************************************)
EXTENDS NetInfo, TLAPS, WellFoundedInduction

LEMMA MinOf == ASSUME NEW S \in SUBSET Nat, S # {} PROVE Min(S) \in S
<1>1. \E x \in S : \A y \in S : <<y, x>> \notin OpToRel(<, Nat)
  BY NatLessThanWellFounded, WFMin
<1>2. PICK x \in S : \A y \in S : <<y, x>> \notin OpToRel(<, Nat)
  BY <1>1
<1>3. \A y \in S : ~(y < x)
  BY <1>2 DEF OpToRel
<1>4. \A y \in S : x \leq y
  BY <1>3
<1>. QED
  BY <1>4 DEF Min

LEMMA PortNumbers == \A t \in Types : hlsNumInterfaceByType[t] \in Nat
BY DEF hlsNumInterfaceByType, Types

(***************************************************************************)
(* The inductive invariant: what has been read when, and below which PCI   *)
(* address.                                                                *)
(***************************************************************************)
ReadInOrder ==
  /\ at \in Reading => ids # {} /\ generated = "no"
  /\ at \in {"ports", "open", "write"} => DOMAIN pciInfo = ids
  /\ at \in {"open", "write"} => DOMAIN extInfo = ids

PortsOfTheirAddress == \A i \in DOMAIN extInfo : extInfo[i] = AddressesOf(pciInfo[i])

FreshWhileSteady ==
  steady =>
    /\ at \in Reading => \A i \in DOMAIN pciInfo : pciInfo[i] = pciAddr[i]
    /\ at \in Reading \ {"type"} => devType = machine[pciAddr[Min(ids)]].type

CopiesAFile == at \in {"copy", "copying"} /\ source # "file" => cutOff

NetInv ==
  /\ NetTypeOK
  /\ ReadInOrder
  /\ PortsOfTheirAddress
  /\ FreshWhileSteady
  /\ CopiesAFile
  /\ AddressesBelongToTheirDevice
  /\ NilMeansWritten
  /\ EmptyOnlyWhenCutOff

------------------------------------------------------------------------------
(* The list of a device by port.                                           *)
LEMMA PortListOf ==
  ASSUME NetTypeOK, PortsOfTheirAddress, NEW i \in DOMAIN extInfo
  PROVE  LET num == hlsNumInterfaceByType[devType]
             pci == pciInfo[i]
         IN  /\ pci \in Pci
             /\ PortList(i) \in Seq(Address) /\ Len(PortList(i)) = num
             /\ DOMAIN PortList(i) = 1..num
             /\ \A k \in 1..num :
                  PortList(i)[k] = IF k - 1 \in machine[pci].external
                                     THEN <<pci, k - 1>> ELSE Broadcast
<1>. DEFINE num == hlsNumInterfaceByType[devType]
            pci == pciInfo[i]
<1>1. num \in Nat
  BY PortNumbers DEF NetTypeOK
<1>2. pci \in Pci /\ machine[pci].external \in SUBSET Ports
  BY DEF NetTypeOK, MachineType
<1>3. extInfo[i] = [p \in machine[pci].external |-> <<pci, p>>]
  BY DEF PortsOfTheirAddress, AddressesOf
<1>4. PortList(i) = [k \in 1..num |-> IF k - 1 \in machine[pci].external
                                        THEN <<pci, k - 1>> ELSE Broadcast]
  BY <1>3 DEF PortList
<1>5. \A k \in 1..num : PortList(i)[k] \in Address
  BY <1>2, <1>4 DEF Address
<1>. HIDE DEF num, pci
<1>6. /\ PortList(i) \in Seq(Address) /\ Len(PortList(i)) = num
      /\ DOMAIN PortList(i) = 1..num
  <2>1. PortList(i) \in [1..num -> Address]
    BY <1>4, <1>5
  <2>. QED
    BY <1>1, <2>1
<1>. QED
  BY <1>2, <1>4, <1>6 DEF num, pci

------------------------------------------------------------------------------
LEMMA NetInitInv == NetInit => NetInv
<1> SUFFICES ASSUME NetInit PROVE NetInv
  OBVIOUS
<1>1. DOMAIN Unread = {}
  BY DEF Unread
<1>2. NetTypeOK
  <2>1. machine \in MachineType /\ pciAddr \in [Id -> Pci \cup {NoPci}]
    BY NetInfoAssumption DEF NetInit
  <2>2. mac.state = "absent" /\ DOMAIN mac.entries = {}
    BY <1>1 DEF NetInit
  <2>3. calls \in 0..MaxCalls
    BY NetInfoAssumption DEF NetInit
  <2>. QED
    BY <1>1, <2>1, <2>2, <2>3 DEF NetInit, NetTypeOK, Types
<1>. QED
  BY <1>1, <1>2 DEF NetInit, NetInv, ReadInOrder, PortsOfTheirAddress, FreshWhileSteady,
     CopiesAFile, AddressesBelongToTheirDevice, NilMeansWritten, EmptyOnlyWhenCutOff,
     Reading

LEMMA GenerateInv ==
  ASSUME NetInv, NEW devices \in SUBSET Id, Generate(devices) PROVE NetInv'
<1>1. /\ UNCHANGED <<machine, pciAddr, source, mac, gaudinet, cutOff>>
      /\ ids' = devices /\ pciInfo' = Unread /\ extInfo' = Unread
      /\ devType' = "other" /\ at \in {"idle", "done"} /\ steady' = TRUE
      /\ \/ devices = {} /\ at' = "stat" /\ generated' = "ok"
         \/ devices # {} /\ at' = "type" /\ generated' = "no"
  BY DEF Generate, machineVars
<1>2. NetTypeOK'
  <2>1. DOMAIN Unread = {}
    BY DEF Unread
  <2>2. calls' \in 0..MaxCalls
    BY NetInfoAssumption DEF Generate, NetInv, NetTypeOK
  <2>. QED
    BY <1>1, <2>1, <2>2 DEF NetInv, NetTypeOK, Types, Reading, Copying
<1>3. AddressesBelongToTheirDevice' /\ EmptyOnlyWhenCutOff'
  BY <1>1 DEF NetInv, AddressesBelongToTheirDevice, EmptyOnlyWhenCutOff
<1>4. DOMAIN pciInfo' = {} /\ DOMAIN extInfo' = {}
  BY <1>1 DEF Unread
<1>. QED
  BY <1>1, <1>2, <1>3, <1>4 DEF NetInv, ReadInOrder, PortsOfTheirAddress,
     FreshWhileSteady, CopiesAFile, NilMeansWritten, Reading

LEMMA DeviceTypeInv == ASSUME NetInv, DeviceType PROVE NetInv'
<1>. DEFINE first == Min(ids)
<1>1. /\ UNCHANGED <<machine, pciAddr, source, mac, gaudinet, ids, pciInfo, extInfo,
                     generated, calls, steady, cutOff>>
      /\ at = "type" /\ at' = "pci" /\ pciAddr[first] # NoPci
      /\ devType' = machine[pciAddr[first]].type
  BY DEF DeviceType, machineVars
<1>2. first \in Id
  BY <1>1, MinOf, NetInfoAssumption DEF NetInv, NetTypeOK, ReadInOrder, Reading
<1>. HIDE DEF first
<1>3. devType' \in Types
  BY <1>1, <1>2 DEF NetInv, NetTypeOK, MachineType
<1>4. NetTypeOK'
  BY <1>1, <1>3 DEF NetInv, NetTypeOK, Reading
<1>5. FreshWhileSteady'
  BY <1>1 DEF NetInv, FreshWhileSteady, first, Reading
<1>6. PortsOfTheirAddress'
  BY <1>1 DEF NetInv, PortsOfTheirAddress, AddressesOf
<1>. QED
  BY <1>1, <1>4, <1>5, <1>6 DEF NetInv, ReadInOrder, CopiesAFile,
     AddressesBelongToTheirDevice, NilMeansWritten, EmptyOnlyWhenCutOff, Reading

LEMMA PCIAddressesInv ==
  ASSUME NetInv, NEW i \in Id, DevicesPCIAddresses(i) PROVE NetInv'
<1>1. /\ UNCHANGED <<machine, pciAddr, source, mac, gaudinet, ids, devType, extInfo,
                     generated, calls, steady, cutOff>>
      /\ at = "pci" /\ i \in ids \ DOMAIN pciInfo /\ pciAddr[i] \in Pci
      /\ pciInfo' = [j \in DOMAIN pciInfo \cup {i} |->
                       IF j = i THEN pciAddr[i] ELSE pciInfo[j]]
      /\ at' = IF DOMAIN pciInfo' = ids THEN "ports" ELSE "pci"
  BY DEF DevicesPCIAddresses, machineVars, NetInv, NetTypeOK
<1>2. \A j \in DOMAIN pciInfo : pciInfo'[j] = pciInfo[j]
  BY <1>1
<1>3. NetTypeOK'
  BY <1>1, <1>2 DEF NetInv, NetTypeOK, Reading
<1>4. PortsOfTheirAddress'
  BY <1>1, <1>2 DEF NetInv, NetTypeOK, PortsOfTheirAddress, AddressesOf
<1>5. FreshWhileSteady'
  BY <1>1, <1>2 DEF NetInv, FreshWhileSteady, Reading
<1>. QED
  BY <1>1, <1>3, <1>4, <1>5 DEF NetInv, ReadInOrder, CopiesAFile,
     AddressesBelongToTheirDevice, NilMeansWritten, EmptyOnlyWhenCutOff, Reading

LEMMA ExtPortsInv ==
  ASSUME NetInv, NEW i \in Id, ExtPortsMACAddress(i) PROVE NetInv'
<1>1. /\ UNCHANGED <<machine, pciAddr, source, mac, gaudinet, ids, devType, pciInfo,
                     generated, calls, steady, cutOff>>
      /\ at = "ports" /\ i \in ids \ DOMAIN extInfo
      /\ extInfo' = [j \in DOMAIN extInfo \cup {i} |->
                       IF j = i THEN AddressesOf(pciInfo[i]) ELSE extInfo[j]]
      /\ at' = IF DOMAIN extInfo' = ids THEN "open" ELSE "ports"
  BY DEF ExtPortsMACAddress, machineVars
<1>2. DOMAIN pciInfo = ids /\ pciInfo[i] \in Pci
  BY <1>1 DEF NetInv, NetTypeOK, ReadInOrder
<1>3. /\ AddressesOf(pciInfo[i]) = [p \in machine[pciInfo[i]].external |-> <<pciInfo[i], p>>]
      /\ machine[pciInfo[i]].external \in SUBSET Ports
  BY <1>2 DEF AddressesOf, NetInv, NetTypeOK, MachineType
<1>4. /\ DOMAIN AddressesOf(pciInfo[i]) \subseteq Ports
      /\ \A p \in DOMAIN AddressesOf(pciInfo[i]) : AddressesOf(pciInfo[i])[p] \in Address
  BY <1>2, <1>3 DEF Address
<1>5. NetTypeOK'
  BY <1>1, <1>2, <1>4 DEF NetInv, NetTypeOK, Reading
<1>6. PortsOfTheirAddress'
  BY <1>1 DEF NetInv, PortsOfTheirAddress, AddressesOf
<1>. QED
  BY <1>1, <1>2, <1>5, <1>6 DEF NetInv, ReadInOrder, FreshWhileSteady, CopiesAFile,
     AddressesBelongToTheirDevice, NilMeansWritten, EmptyOnlyWhenCutOff, Reading

LEMMA OpenNetConfigInv == ASSUME NetInv, OpenNetConfig PROVE NetInv'
<1>1. /\ UNCHANGED <<machine, pciAddr, source, gaudinet, ids, devType, pciInfo, extInfo,
                     generated, calls, steady, cutOff>>
      /\ at = "open" /\ at' = "write"
      /\ mac' = [state |-> "cut", entries |-> Unread] /\ DOMAIN Unread = {}
  BY DEF OpenNetConfig, machineVars, information, Unread
<1>2. NetTypeOK'
  BY <1>1 DEF NetInv, NetTypeOK, Reading
<1>3. PortsOfTheirAddress'
  BY <1>1 DEF NetInv, PortsOfTheirAddress, AddressesOf
<1>. QED
  BY <1>1, <1>2, <1>3 DEF NetInv, ReadInOrder, FreshWhileSteady, CopiesAFile,
     AddressesBelongToTheirDevice, NilMeansWritten, EmptyOnlyWhenCutOff, Reading

(* The file that is written is this invocation's, by port, below the       *)
(* addresses that were read.                                               *)
LEMMA WriteNetConfigInv == ASSUME NetInv, WriteNetConfig PROVE NetInv'
<1>1. /\ UNCHANGED <<machine, pciAddr, source, gaudinet, ids, devType, pciInfo, extInfo,
                     calls, steady, cutOff>>
      /\ at = "write" /\ at' = "stat" /\ generated' = "ok"
      /\ mac' = [state |-> "written",
                 entries |-> [i \in ids |-> [pci |-> pciInfo[i], list |-> PortList(i)]]]
  BY DEF WriteNetConfig, machineVars, information
<1>2. DOMAIN pciInfo = ids /\ DOMAIN extInfo = ids /\ ids # {}
  BY <1>1 DEF NetInv, ReadInOrder, Reading
<1>3. \A i \in ids :
        LET num == hlsNumInterfaceByType[devType]
            e   == mac'.entries[i]
        IN  /\ e = [pci |-> pciInfo[i], list |-> PortList(i)]
            /\ e.pci = pciInfo[i] /\ e.pci \in Pci
            /\ e.list \in Seq(Address) /\ Len(e.list) = num
            /\ DOMAIN e.list = 1..num
            /\ \A k \in 1..num :
                 e.list[k] = IF k - 1 \in machine[e.pci].external
                               THEN <<e.pci, k - 1>> ELSE Broadcast
  BY <1>1, <1>2, PortListOf DEF NetInv
<1>4. DOMAIN mac'.entries = ids /\ mac'.state = "written"
  BY <1>1
<1>5. NetTypeOK'
  BY <1>1, <1>3, <1>4 DEF NetInv, NetTypeOK, Copying
<1>6. \A i \in ids : DOMAIN mac'.entries[i].list = 1..hlsNumInterfaceByType[devType]
  BY <1>3
<1>7. AddressesBelongToTheirDevice'
  BY <1>3, <1>4, <1>6 DEF AddressesBelongToTheirDevice
<1>8. ASSUME steady, OneType(ids) PROVE Describes(mac'.entries, ids)
  <2>1. \A i \in ids : pciInfo[i] = pciAddr[i]
    BY <1>1, <1>2, <1>8 DEF NetInv, FreshWhileSteady, Reading
  <2>2. Min(ids) \in ids
    BY <1>2, MinOf, NetInfoAssumption DEF NetInv, NetTypeOK
  <2>3. devType = machine[pciAddr[Min(ids)]].type
    BY <1>1, <1>8 DEF NetInv, FreshWhileSteady, Reading
  <2>4. \A i \in ids : machine[pciAddr[i]].type = devType
    BY <1>8, <2>2, <2>3 DEF OneType
  <2>5. \A i \in ids : machine[pciInfo[i]].external \in SUBSET Ports
    BY <1>3 DEF NetInv, NetTypeOK, MachineType
  <2>6. \A i \in ids, p \in Ports : <<pciInfo[i], p>> # Broadcast
    <3>1. \A i \in ids : pciInfo[i] \in Pci
      BY <1>2 DEF NetInv, NetTypeOK
    <3>. QED
      BY <3>1, NetInfoAssumption
  <2>. DEFINE num == hlsNumInterfaceByType[devType]
  <2>7. ASSUME NEW i \in ids
        PROVE  LET e == mac'.entries[i]
                   device == machine[pciAddr[i]]
               IN  /\ e.pci = pciAddr[i]
                   /\ Len(e.list) = hlsNumInterfaceByType[device.type]
                   /\ \A k \in DOMAIN e.list :
                        (k - 1 \in device.external) <=> (e.list[k] # Broadcast)
    <3>. DEFINE e == mac'.entries[i]
    <3>1. e.pci = pciAddr[i] /\ pciInfo[i] = pciAddr[i] /\ machine[pciAddr[i]].type = devType
      BY <1>3, <2>1, <2>4
    <3>2. Len(e.list) = num /\ DOMAIN e.list = 1..num
      BY <1>3
    <3>3. \A k \in 1..num : e.list[k] = IF k - 1 \in machine[pciAddr[i]].external
                                         THEN <<pciAddr[i], k - 1>> ELSE Broadcast
      BY <1>3, <3>1
    <3>4. \A p \in machine[pciAddr[i]].external : <<pciAddr[i], p>> # Broadcast
      BY <2>5, <2>6, <3>1
    <3>. HIDE DEF e, num
    <3>5. \A k \in DOMAIN e.list :
            (k - 1 \in machine[pciAddr[i]].external) <=> (e.list[k] # Broadcast)
      BY <3>2, <3>3, <3>4
    <3>. QED
      BY <3>1, <3>2, <3>5 DEF e, num
  <2>. QED
    BY <1>4, <2>7 DEF Describes
<1>9. NilMeansWritten'
  <2>1. OneType(ids)' = OneType(ids)
    BY <1>1 DEF OneType
  <2>2. Describes(mac.entries, ids)' = Describes(mac'.entries, ids)
    BY <1>1 DEF Describes
  <2>. QED
    BY <1>1, <1>4, <1>8, <2>1, <2>2 DEF NilMeansWritten
<1>10. PortsOfTheirAddress'
  BY <1>1 DEF NetInv, PortsOfTheirAddress, AddressesOf
<1>. QED
  BY <1>1, <1>5, <1>7, <1>9, <1>10 DEF NetInv, ReadInOrder, FreshWhileSteady,
     CopiesAFile, EmptyOnlyWhenCutOff, Reading

(* The steps that leave macAddrInfo.json and what was read as they are.    *)
LEMMA Settled ==
  ASSUME NetInv, NetTypeOK', at' \notin Reading,
         UNCHANGED <<machine, pciAddr, mac, ids, pciInfo, extInfo, steady>>,
         generated' \in {generated, "failed"}, CopiesAFile', EmptyOnlyWhenCutOff'
  PROVE  NetInv'
<1>1. PortsOfTheirAddress' /\ AddressesBelongToTheirDevice'
  BY DEF NetInv, PortsOfTheirAddress, AddressesOf, AddressesBelongToTheirDevice
<1>2. NilMeansWritten'
  <2>1. OneType(ids)' = OneType(ids) /\ Describes(mac.entries, ids)' = Describes(mac.entries, ids)
    BY DEF OneType, Describes
  <2>. QED
    BY <2>1 DEF NetInv, NilMeansWritten, ReadInOrder
<1>. QED
  BY <1>1, <1>2 DEF NetInv, ReadInOrder, FreshWhileSteady, Reading

LEMMA EndingsInv ==
  ASSUME NetInv, GenerateFails \/ StatSource \/ OpenCopy \/ Copy \/ CopyFails \/ Kill
  PROVE  NetInv'
<1>1. /\ UNCHANGED <<machine, pciAddr, source, mac, ids, devType, pciInfo, extInfo,
                     calls, steady>>
      /\ at' \in {"idle", "done", "stat", "copy", "copying"}
      /\ generated' \in {generated, "failed"}
      /\ gaudinet' \in {"absent", "cut", "copied"} /\ cutOff' \in BOOLEAN
  BY DEF GenerateFails, StatSource, OpenCopy, Copy, CopyFails, Kill, machineVars,
     information, NetInv, NetTypeOK
<1>2. NetTypeOK'
  BY <1>1 DEF NetInv, NetTypeOK, Copying
<1>3. CopiesAFile' /\ EmptyOnlyWhenCutOff'
  BY DEF GenerateFails, StatSource, OpenCopy, Copy, CopyFails, Kill, machineVars,
     NetInv, NetTypeOK, CopiesAFile, EmptyOnlyWhenCutOff, Reading, Copying
<1>4. at' \notin Reading
  BY <1>1 DEF Reading
<1>. QED
  BY <1>1, <1>2, <1>3, <1>4, Settled

LEMMA HostInv == ASSUME NetInv, Renumber \/ SourceChanges PROVE NetInv'
<1>1. /\ UNCHANGED <<machine, mac, gaudinet, at, ids, devType, pciInfo, extInfo,
                     generated, calls>>
      /\ ~steady' /\ steady' \in BOOLEAN /\ cutOff' \in BOOLEAN
      /\ cutOff => cutOff'
      /\ source' \in {"absent", "empty", "file"}
      /\ pciAddr' \in [Id -> Pci \cup {NoPci}]
      /\ source' # source /\ at \in {"copy", "copying"} => cutOff'
  BY NetInfoAssumption DEF Renumber, SourceChanges, information, NetInv, NetTypeOK
<1>2. NetTypeOK'
  BY <1>1 DEF NetInv, NetTypeOK
<1>3. PortsOfTheirAddress' /\ AddressesBelongToTheirDevice'
  BY <1>1 DEF NetInv, PortsOfTheirAddress, AddressesOf, AddressesBelongToTheirDevice
<1>. QED
  BY <1>1, <1>2, <1>3 DEF NetInv, ReadInOrder, FreshWhileSteady, CopiesAFile,
     NilMeansWritten, EmptyOnlyWhenCutOff

LEMMA NetStepInv == NetInv /\ [NetNext]_netVars => NetInv'
<1> SUFFICES ASSUME NetInv, [NetNext]_netVars PROVE NetInv'
  OBVIOUS
<1>1. CASE UNCHANGED netVars
  <2>1. UNCHANGED <<machine, pciAddr, source, mac, gaudinet, at, ids, devType, pciInfo,
                    extInfo, generated, calls, steady, cutOff>>
    BY <1>1 DEF netVars, machineVars, information
  <2>2. NetTypeOK' /\ ReadInOrder' /\ CopiesAFile' /\ EmptyOnlyWhenCutOff'
    BY <2>1 DEF NetInv, NetTypeOK, ReadInOrder, CopiesAFile, EmptyOnlyWhenCutOff
  <2>3. PortsOfTheirAddress' /\ AddressesBelongToTheirDevice' /\ FreshWhileSteady'
    BY <2>1 DEF NetInv, PortsOfTheirAddress, AddressesOf, AddressesBelongToTheirDevice,
       FreshWhileSteady
  <2>4. NilMeansWritten'
    BY <2>1 DEF NetInv, NilMeansWritten, OneType, Describes
  <2>. QED
    BY <2>2, <2>3, <2>4 DEF NetInv
<1>. QED
  BY <1>1, GenerateInv, DeviceTypeInv, PCIAddressesInv, ExtPortsInv, OpenNetConfigInv,
     WriteNetConfigInv, EndingsInv, HostInv DEF NetNext

LEMMA NetInvariant == NetSpec => []NetInv
BY NetInitInv, NetStepInv, PTL DEF NetSpec

------------------------------------------------------------------------------
(* The type invariant of the network files, for any machine, any number    *)
(* of devices and any number of calls of Generate (netinfo.go:39-256).     *)
THEOREM NetTypeCorrect == NetSpec => []NetTypeOK
BY NetInvariant, PTL DEF NetInv

(* However often the accelerators are renumbered while sysfs is read, no   *)
(* device is given an address of another device or port                    *)
(* (netinfo.go:153-256).                                                   *)
THEOREM AddressesBelong == NetSpec => []AddressesBelongToTheirDevice
BY NetInvariant, PTL DEF NetInv

(* When Generate returns nil the file is whole and this invocation's       *)
(* (netinfo.go:55-85).                                                     *)
THEOREM NilIsWritten == NetSpec => []NilMeansWritten
BY NetInvariant, PTL DEF NetInv

(* Only a copy that was cut off leaves an empty file (netinfo.go:87-127).  *)
THEOREM EmptyWhenCutOff == NetSpec => []EmptyOnlyWhenCutOff
BY NetInvariant, PTL DEF NetInv
==============================================================================
