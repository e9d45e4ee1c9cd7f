-------------------------------- MODULE NetInfo --------------------------------
(***************************************************************************)
(* The two network files the runtime writes into /etc/habanalabs of a      *)
(* container: macAddrInfo.json (Generate), put together from several reads *)
(* of sysfs, and gaudinet.json (GaudinetFile), a copy of the host's.  The  *)
(* driver may be loaded again between two reads, which may exchange the    *)
(* numbers of the accelerators, and the process may fail or be killed at   *)
(* every step and be run again on what it left.  That the directory may be *)
(* missing is in ContainerRuntime.                                         *)
(***************************************************************************)
EXTENDS Naturals, Sequences, Functions, FiniteSetsExt

CONSTANTS
  Id,         \* accelerator numbers
  Pci,        \* PCI addresses
  NoPci,      \* the address of an accelerator that is not there
  Broadcast,  \* the address ff:ff:ff:ff:ff:ff, given to an internal port
  Machines,   \* the devices a host may have: a subset of MachineType
  Numberings, \* what the driver may make of them: functions from Id
  MaxCalls    \* bound on the invocations for the container

Types == {"gaudi", "gaudi2", "gaudi2b", "gaudi2c", "gaudi2d", "gaudi3", "other"}

(* Ports of a device, internal and external; 0 for a type not in the map.  *)
hlsNumInterfaceByType ==
  [type \in Types |-> CASE type = "gaudi" -> 10 [] type = "other" -> 0 [] OTHER -> 24]

Ports == 0..23

(* By PCI address, the type of the device and its ports with an interface. *)
MachineType == [Pci -> [type : Types, external : SUBSET Ports]]

(* The address of an interface is <<pci, port>>.                           *)
Address == (Pci \X Ports) \cup {Broadcast}

ASSUME NetInfoAssumption ==
  /\ Id \subseteq Nat
  /\ NoPci \notin Pci
  /\ Broadcast \notin Pci \X Ports
  /\ Machines \subseteq MachineType
  /\ Numberings \subseteq [Id -> Pci \cup {NoPci}]
  /\ MaxCalls \in Nat

VARIABLES
  machine,   \* the devices of the host
  pciAddr,   \* sysfs: the PCI address of each accelerator
  source,    \* the host's gaudinet.json
  mac,       \* macAddrInfo.json of the container
  gaudinet,  \* gaudinet.json of the container
  at,        \* where the invocation is
  ids,       \* devicesIDs
  devType,   \* the type of the first of them
  pciInfo,   \* the PCI addresses read so far, by accelerator
  extInfo,   \* the addresses read so far, by accelerator and port
  generated, \* what Generate returned
  calls,
  \* History, read by no action:
  steady,    \* the host has not changed since Generate was called
  cutOff     \* a copy failed or was killed, or its source changed meanwhile

machineVars == <<machine, pciAddr, source>>
information == <<ids, devType, pciInfo, extInfo>>
netVars == <<machineVars, mac, gaudinet, at, information, generated, calls, steady,
             cutOff>>

(* The functions read nothing into yet.                                    *)
Unread == [i \in {} |-> {}]

Reading == {"type", "pci", "ports", "open", "write"}
Copying == {"stat", "copy", "copying"}

NetTypeOK ==
  /\ machine \in MachineType
  /\ pciAddr \in [Id -> Pci \cup {NoPci}]
  /\ source \in {"absent", "empty", "file"}
  /\ mac.state \in {"absent", "cut", "written"}
  /\ DOMAIN mac.entries \subseteq Id
  /\ \A i \in DOMAIN mac.entries :
       mac.entries[i] \in [pci : Pci, list : Seq(Address)]
  /\ gaudinet \in {"absent", "cut", "copied"}
  /\ at \in {"idle", "done"} \cup Reading \cup Copying
  /\ ids \in SUBSET Id
  /\ devType \in Types
  /\ DOMAIN extInfo \subseteq DOMAIN pciInfo /\ DOMAIN pciInfo \subseteq ids
  /\ \A i \in DOMAIN pciInfo : pciInfo[i] \in Pci
  /\ \A i \in DOMAIN extInfo :
       /\ DOMAIN extInfo[i] \subseteq Ports
       /\ \A p \in DOMAIN extInfo[i] : extInfo[i][p] \in Address
  /\ generated \in {"no", "ok", "failed"}
  /\ calls \in 0..MaxCalls
  /\ steady \in BOOLEAN
  /\ cutOff \in BOOLEAN

NetInit ==
  /\ machine \in Machines
  /\ pciAddr \in Numberings
  /\ source \in {"absent", "empty", "file"}
  /\ mac = [state |-> "absent", entries |-> Unread]
  /\ gaudinet = "absent"
  /\ at = "idle"
  /\ ids = {}
  /\ devType = "other"
  /\ pciInfo = Unread
  /\ extInfo = Unread
  /\ generated = "no"
  /\ calls = 0
  /\ steady = FALSE
  /\ cutOff = FALSE

------------------------------------------------------------------------------
(* Without a device Generate returns before it reads or writes anything.   *)
Generate(devices) ==
  /\ at \in {"idle", "done"}
  /\ calls < MaxCalls
  /\ calls' = calls + 1
  /\ ids' = devices
  /\ at' = IF devices = {} THEN "stat" ELSE "type"
  /\ generated' = IF devices = {} THEN "ok" ELSE "no"
  /\ devType' = "other"
  /\ pciInfo' = Unread
  /\ extInfo' = Unread
  /\ steady' = TRUE
  /\ UNCHANGED <<machineVars, mac, gaudinet, cutOff>>

(* The type of the first device is taken for that of all of them.          *)
DeviceType ==
  LET first == Min(ids)
  IN  /\ at = "type"
      /\ pciAddr[first] # NoPci
      /\ devType' = machine[pciAddr[first]].type
      /\ at' = "pci"
      /\ UNCHANGED <<machineVars, mac, gaudinet, ids, pciInfo, extInfo, generated,
                     calls, steady, cutOff>>

(* Mutant: the error of the read is not looked at.                         *)
PCIAddressesUnchecked(i) ==
  /\ at = "pci"
  /\ i \in ids \ DOMAIN pciInfo
  /\ pciInfo' = [j \in DOMAIN pciInfo \cup {i} |-> IF j = i THEN pciAddr[i] ELSE pciInfo[j]]
  /\ at' = IF DOMAIN pciInfo' = ids THEN "ports" ELSE "pci"
  /\ UNCHANGED <<machineVars, mac, gaudinet, ids, devType, extInfo, generated, calls,
                 steady, cutOff>>

DevicesPCIAddresses(i) ==
  /\ at = "pci"
  /\ i \in ids \ DOMAIN pciInfo
  /\ pciAddr[i] # NoPci
  /\ pciInfo' = [j \in DOMAIN pciInfo \cup {i} |-> IF j = i THEN pciAddr[i] ELSE pciInfo[j]]
  /\ at' = IF DOMAIN pciInfo' = ids THEN "ports" ELSE "pci"
  /\ UNCHANGED <<machineVars, mac, gaudinet, ids, devType, extInfo, generated, calls,
                 steady, cutOff>>

AddressesOf(pci) == [p \in machine[pci].external |-> <<pci, p>>]

(* Mutant: the interfaces are looked up by the number of the accelerator.  *)
ExtPortsByNumber(i) ==
  /\ at = "ports"
  /\ i \in ids \ DOMAIN extInfo
  /\ pciAddr[i] # NoPci
  /\ extInfo' = [j \in DOMAIN extInfo \cup {i} |->
                   IF j = i THEN AddressesOf(pciAddr[i]) ELSE extInfo[j]]
  /\ at' = IF DOMAIN extInfo' = ids THEN "open" ELSE "ports"
  /\ UNCHANGED <<machineVars, mac, gaudinet, ids, devType, pciInfo, generated, calls,
                 steady, cutOff>>

(* The interfaces below the device's PCI address, while a driver has it.   *)
ExtPortsMACAddress(i) ==
  /\ at = "ports"
  /\ i \in ids \ DOMAIN extInfo
  /\ pciInfo[i] \in Range(pciAddr)
  /\ extInfo' = [j \in DOMAIN extInfo \cup {i} |->
                   IF j = i THEN AddressesOf(pciInfo[i]) ELSE extInfo[j]]
  /\ at' = IF DOMAIN extInfo' = ids THEN "open" ELSE "ports"
  /\ UNCHANGED <<machineVars, mac, gaudinet, ids, devType, pciInfo, generated, calls,
                 steady, cutOff>>

(* The file is truncated when it is opened.                                *)
OpenNetConfig ==
  /\ at = "open"
  /\ mac' = [state |-> "cut", entries |-> Unread]
  /\ at' = "write"
  /\ UNCHANGED <<machineVars, gaudinet, information, generated, calls, steady, cutOff>>

(* Mutant: ports are counted from 1.                                       *)
PortListFromOne(i) ==
  [k \in 1..hlsNumInterfaceByType[devType] |->
     IF k \in DOMAIN extInfo[i] THEN extInfo[i][k] ELSE Broadcast]

(* devicesMACAddress: the list of a device by port, from port 0 on.        *)
PortList(i) ==
  [k \in 1..hlsNumInterfaceByType[devType] |->
     IF k - 1 \in DOMAIN extInfo[i] THEN extInfo[i][k - 1] ELSE Broadcast]

WriteNetConfig ==
  /\ at = "write"
  /\ mac' = [state |-> "written",
             entries |-> [i \in ids |-> [pci |-> pciInfo[i], list |-> PortList(i)]]]
  /\ generated' = "ok"
  /\ at' = "stat"
  /\ UNCHANGED <<machineVars, gaudinet, information, calls, steady, cutOff>>

(* Something cannot be read or written; the caller goes on to the copy.    *)
GenerateFails ==
  /\ at \in Reading
  /\ generated' = "failed"
  /\ at' = "stat"
  /\ UNCHANGED <<machineVars, mac, gaudinet, information, calls, steady, cutOff>>

------------------------------------------------------------------------------
(* Mutant: the size of the source is not looked at.                        *)
StatSourceExists ==
  /\ at = "stat"
  /\ at' = IF source = "absent" THEN "done" ELSE "copy"
  /\ UNCHANGED <<machineVars, mac, gaudinet, information, generated, calls, steady,
                 cutOff>>

(* GaudinetFile: an empty source is not copied.                            *)
StatSource ==
  /\ at = "stat"
  /\ at' = IF source = "file" THEN "copy" ELSE "done"
  /\ UNCHANGED <<machineVars, mac, gaudinet, information, generated, calls, steady,
                 cutOff>>

(* The source is opened first, then the destination, which truncates it.   *)
OpenCopy ==
  /\ at = "copy"
  /\ IF source = "absent"
       THEN at' = "done" /\ UNCHANGED gaudinet
       ELSE at' = "copying" /\ gaudinet' = "cut"
  /\ UNCHANGED <<machineVars, mac, information, generated, calls, steady, cutOff>>

Copy ==
  /\ at = "copying"
  /\ gaudinet' = IF source = "empty" THEN "cut" ELSE "copied"
  /\ at' = "done"
  /\ UNCHANGED <<machineVars, mac, information, generated, calls, steady, cutOff>>

CopyFails ==
  /\ at \in Copying
  /\ at' = "done"
  /\ cutOff' = (cutOff \/ at = "copying")
  /\ UNCHANGED <<machineVars, mac, gaudinet, information, generated, calls, steady>>

------------------------------------------------------------------------------
Kill ==
  /\ at \in Reading \cup Copying
  /\ at' = "idle"
  /\ cutOff' = (cutOff \/ at = "copying")
  /\ UNCHANGED <<machineVars, mac, gaudinet, information, generated, calls, steady>>

(* The driver is loaded again, or not.                                     *)
Renumber ==
  /\ pciAddr' \in Numberings \ {pciAddr}
  /\ steady' = FALSE
  /\ UNCHANGED <<machine, source, mac, gaudinet, at, information, generated, calls,
                 cutOff>>

(* The host's gaudinet.json is written, truncated or removed.              *)
SourceChanges ==
  /\ source' \in {"absent", "empty", "file"} \ {source}
  /\ steady' = FALSE
  /\ cutOff' = (cutOff \/ at \in {"copy", "copying"})
  /\ UNCHANGED <<machine, pciAddr, mac, gaudinet, at, information, generated, calls>>

NetNext ==
  \/ \E devices \in SUBSET Id : Generate(devices)
  \/ DeviceType
  \/ \E i \in Id : DevicesPCIAddresses(i) \/ ExtPortsMACAddress(i)
  \/ OpenNetConfig \/ WriteNetConfig \/ GenerateFails
  \/ StatSource \/ OpenCopy \/ Copy \/ CopyFails
  \/ Kill \/ Renumber \/ SourceChanges

NetSpec == NetInit /\ [][NetNext]_netVars

------------------------------------------------------------------------------
(* However often the accelerators change their numbers while sysfs is read *)
(* (netinfo.go:153-256), the file never gives a device the address of      *)
(* another device or of another port: everything that is read of a device  *)
(* is read below the PCI address that is written.                          *)
AddressesBelongToTheirDevice ==
  \A i \in DOMAIN mac.entries :
    LET e == mac.entries[i]
    IN  \A k \in DOMAIN e.list : e.list[k] \in {Broadcast, <<e.pci, k - 1>>}

(* Of the devices ids, all of the type of the first.                       *)
Describes(entries, devices) ==
  /\ DOMAIN entries = devices
  /\ \A i \in devices :
       LET device == machine[pciAddr[i]]
       IN  /\ entries[i].pci = pciAddr[i]
           /\ Len(entries[i].list) = hlsNumInterfaceByType[device.type]
           /\ \A k \in DOMAIN entries[i].list :
                (k - 1 \in device.external) <=> (entries[i].list[k] # Broadcast)

OneType(devices) ==
  \A i, j \in devices : machine[pciAddr[i]].type = machine[pciAddr[j]].type

(* When Generate returns nil, the file is this invocation's, and whole,    *)
(* whatever a killed or failed one left before (netinfo.go:55-85); on a    *)
(* host that did not change meanwhile and has devices of one type it lists *)
(* every port of every requested accelerator, the external ones with their *)
(* address.                                                                *)
NilMeansWritten ==
  generated = "ok" /\ ids # {} /\ at \notin Reading =>
    /\ mac.state = "written" /\ DOMAIN mac.entries = ids
    /\ steady /\ OneType(ids) => Describes(mac.entries, ids)

(* "Skip copying an empty file to avoid HCL problem" (netinfo.go:102): the *)
(* container is left with an empty gaudinet.json only by a copy that was   *)
(* cut off, or whose source was emptied under it.                          *)
EmptyOnlyWhenCutOff == gaudinet = "cut" /\ at # "copying" => cutOff
==============================================================================
