-------------------------- MODULE DeviceFilterProofs ---------------------------
(***************************************************************************)
(* The generated filter decides as the rules do, for any rules, any number *)
(* of calls and any access.                                                *)
(***************************************************************************)
EXTENDS DeviceFilter, SequenceTheorems, WellFoundedInduction, TLAPS

(***************************************************************************)
(* The blocks                                                              *)
(***************************************************************************)
(* A test of a rule; a test of the type comes first, where R2 holds it.    *)
TestOf(rule, instruction, j) ==
  \/ instruction = Type(rule.type) /\ rule.type # "a" /\ j = 1
  \/ instruction = Access(rule.access) /\ rule.access # FullAccess
  \/ instruction = Number("major", rule.major) /\ rule.major # AnyNumber
  \/ instruction = Number("minor", rule.minor) /\ rule.minor # AnyNumber

Has(block, instruction) == \E j \in 1..(Len(block) - 1) : block[j] = instruction

IsBlock(rule, block) ==
  /\ Len(block) \in Nat \ {0}
  /\ \A j \in 1..(Len(block) - 1) : TestOf(rule, block[j], j)
  /\ rule.type # "a" => Has(block, Type(rule.type))
  /\ rule.access # FullAccess => Has(block, Access(rule.access))
  /\ rule.major # AnyNumber => Has(block, Number("major", rule.major))
  /\ rule.minor # AnyNumber => Has(block, Number("minor", rule.minor))
  /\ block[Len(block)] = Return(Verdict(rule.allow))

Appended(S, s, t, x, c) ==
  /\ t \in Seq(S)
  /\ Len(t) = Len(s) + (IF c THEN 1 ELSE 0)
  /\ \A j \in 1..Len(s) : t[j] = s[j]
  /\ c => t[Len(s) + 1] = x

LEMMA AppendWhen ==
  ASSUME NEW S, NEW s \in Seq(S), NEW x \in S, NEW c \in BOOLEAN
  PROVE  Appended(S, s, s \o When(c, x), x, c)
<1>1. CASE c
  <2> DEFINE w == When(c, x)
  <2>1. w \in Seq(S) /\ Len(w) = 1 /\ w[1] = x
    BY <1>1 DEF When
  <2> HIDE DEF w
  <2>2. /\ s \o w \in Seq(S)
        /\ Len(s \o w) = Len(s) + Len(w)
        /\ \A j \in 1..(Len(s) + Len(w)) :
             (s \o w)[j] = IF j <= Len(s) THEN s[j] ELSE w[j - Len(s)]
    BY <2>1, ConcatProperties, Zenon
  <2>3. Len(s) \in Nat
    BY LenProperties
  <2>4. Appended(S, s, s \o w, x, c)
    BY <1>1, <2>1, <2>2, <2>3 DEF Appended
  <2>. QED BY <2>4 DEF w
<1>2. CASE ~c
  <2>1. s \o When(c, x) = s
    BY <1>2, ConcatEmptySeq DEF When
  <2>. QED BY <1>2, <2>1, LenProperties DEF Appended
<1>. QED BY <1>1, <1>2

LEMMA BlockOf == ASSUME NEW rule \in RuleType PROVE IsBlock(rule, Block(rule))
<1> DEFINE t == Type(rule.type)
           a == Access(rule.access)
           m == Number("major", rule.major)
           n == Number("minor", rule.minor)
           v == Return(Verdict(rule.allow))
           S == {t, a, m, n, v}
           cT == rule.type # "a"
           cA == rule.access # FullAccess
           cM == rule.major # AnyNumber
           cN == rule.minor # AnyNumber
           B1 == When(cT, t)
           B2 == B1 \o When(cA, a)
           B3 == B2 \o When(cM, m)
           B4 == B3 \o When(cN, n)
           B5 == B4 \o <<v>>
<1> HIDE DEF t, a, m, n, v
<1>a. /\ t \in S /\ a \in S /\ m \in S /\ n \in S /\ v \in S
      /\ cT \in BOOLEAN /\ cA \in BOOLEAN /\ cM \in BOOLEAN /\ cN \in BOOLEAN
  OBVIOUS
<1> HIDE DEF S
<1>1. /\ B1 \in Seq(S) /\ Len(B1) = IF cT THEN 1 ELSE 0
      /\ cT => B1[1] = t
  <2>1. CASE cT
    BY <1>a, <2>1 DEF When
  <2>2. CASE ~cT
    BY <2>2 DEF When
  <2>. QED BY <2>1, <2>2
<1> HIDE DEF B1, cT, cA, cM, cN
<1>2. Appended(S, B1, B2, a, cA)
  BY <1>a, <1>1, AppendWhen, Zenon
<1> HIDE DEF B2
<1>3. Appended(S, B2, B3, m, cM)
  <2>1. B2 \in Seq(S)
    BY <1>2 DEF Appended
  <2>. QED BY <1>a, <2>1, AppendWhen, Zenon
<1> HIDE DEF B3
<1>4. Appended(S, B3, B4, n, cN)
  <2>1. B3 \in Seq(S)
    BY <1>3 DEF Appended
  <2>. QED BY <1>a, <2>1, AppendWhen, Zenon
<1> HIDE DEF B4
<1>5. /\ Len(B5) = Len(B4) + 1
      /\ \A j \in 1..Len(B4) : B5[j] = B4[j]
      /\ B5[Len(B4) + 1] = v
  <2>1. <<v>> \in Seq(S) /\ Len(<<v>>) = 1 /\ <<v>>[1] = v
    BY <1>a
  <2>2. B4 \in Seq(S) /\ Len(B4) \in Nat
    BY <1>4, LenProperties DEF Appended
  <2>3. /\ Len(B4 \o <<v>>) = Len(B4) + 1
        /\ \A j \in 1..(Len(B4) + 1) :
             (B4 \o <<v>>)[j] = IF j <= Len(B4) THEN B4[j] ELSE <<v>>[j - Len(B4)]
    BY <2>1, <2>2, ConcatProperties, Zenon
  <2>. QED BY <2>1, <2>2, <2>3
<1>6. Block(rule) = B5
  BY Zenon DEF Block, B1, B2, B3, B4, t, a, m, n, v, cT, cA, cM, cN
<1> HIDE DEF B5
<1>7. /\ Len(B1) \in Nat /\ Len(B2) \in Nat /\ Len(B3) \in Nat /\ Len(B4) \in Nat
      /\ Len(B1) <= Len(B2) /\ Len(B2) <= Len(B3) /\ Len(B3) <= Len(B4)
  BY <1>1, <1>2, <1>3, <1>4, LenProperties DEF Appended
<1>8. /\ cT => B5[1] = t /\ 1 <= Len(B4)
      /\ cA => B5[Len(B1) + 1] = a /\ Len(B1) + 1 <= Len(B4)
      /\ cM => B5[Len(B2) + 1] = m /\ Len(B2) + 1 <= Len(B4)
      /\ cN => B5[Len(B3) + 1] = n /\ Len(B3) + 1 <= Len(B4)
  BY <1>1, <1>2, <1>3, <1>4, <1>5, <1>7 DEF Appended
<1>9. ASSUME NEW j \in 1..Len(B4)
      PROVE  \/ B5[j] = t /\ cT /\ j = 1
             \/ B5[j] = a /\ cA
             \/ B5[j] = m /\ cM
             \/ B5[j] = n /\ cN
  BY <1>1, <1>2, <1>3, <1>4, <1>7, <1>8, <1>5 DEF Appended
<1>. QED
  <2>1. Len(B5) - 1 = Len(B4) /\ Len(B5) \in Nat \ {0}
    BY <1>5, <1>7
  <2>2. \A j \in 1..(Len(B5) - 1) : TestOf(rule, B5[j], j)
    BY <1>9, <2>1 DEF TestOf, t, a, m, n, cT, cA, cM, cN
  <2>3. /\ cT => Has(B5, t)
        /\ cA => Has(B5, a)
        /\ cM => Has(B5, m)
        /\ cN => Has(B5, n)
    BY <1>7, <1>8, <2>1 DEF Has
  <2>4. B5[Len(B5)] = v
    BY <1>5, <2>1
  <2>. QED BY <1>6, <2>1, <2>2, <2>3, <2>4 DEF IsBlock, t, a, m, n, v, cT, cA, cM, cN

------------------------------------------------------------------------------
(***************************************************************************)
(* The program.  k[b] is the number of rules that the code from block b on *)
(* stands for: those asked first, for the newest are tested first.         *)
(***************************************************************************)
Denial == <<Return("deny")>>

Blocks == {<<Load>>, Denial, <<BareReturn>>} \cup {Block(r) : r \in Rules}

StandsFor(p, rules, k, b) ==
  \/ p[b] = <<Load>> /\ b < Len(p) /\ k[b + 1] = k[b]
  \/ /\ k[b] > 0 /\ p[b] = Block(rules[k[b]])
     /\ IF b < Len(p) THEN k[b + 1] = k[b] - 1 /\ ~Wildcard(rules[k[b]])
                      ELSE Wildcard(rules[k[b]])
  \/ p[b] = Denial /\ b = Len(p) /\ k[b] = 0

Represents(p, rules, k) ==
  /\ k \in [1..Len(p) -> 0..Len(rules)]
  /\ Len(p) >= 1 /\ p[1] = <<Load>> /\ k[1] = Len(rules)
  /\ \A b \in 1..Len(p) : StandsFor(p, rules, k, b)

(* After a test of the access R2 is loaded again, or not looked at.        *)
RegisterReloaded(p, rules, k) ==
  \A b \in 1..(Len(p) - 1) :
    k[b + 1] = k[b] - 1 /\ rules[k[b]].access # FullAccess =>
      p[b + 1] \in {<<Load>>, Denial}

(***************************************************************************)
(* A run of the program on an access: no rule passed by matches it, and    *)
(* the tests of the block at hand hold so far.                             *)
(***************************************************************************)
Passed(instruction) ==
  CASE instruction.op = "type"   -> instruction.bits = BPFType(request.type)
    [] instruction.op = "access" -> instruction.bits \cap BPFAccess(request.access) # {}
    [] instruction.op = "number" -> request[instruction.reg] = instruction.value
    [] OTHER -> TRUE

InProgram ==
  /\ at[1] \in 1..Len(prog)
  /\ at[2] \in 1..Len(prog[at[1]])

SoFar(k) ==
  /\ \A i \in (k[at[1]] + 1)..Len(asked) : ~Matches(asked[i])
  /\ \A j \in 1..(at[2] - 1) : Passed(prog[at[1]][j])
  /\ \/ prog[at[1]] \in {<<Load>>, Denial}
     \/ reg = BPFType(request.type)
     \/ at[2] > 1 /\ asked[k[at[1]]].access # FullAccess

ProgramInv(k) ==
  /\ Represents(prog, asked, k)
  /\ ~partial => RegisterReloaded(prog, asked, k)
  /\ outcome = "running" => InProgram
  /\ outcome = "running" /\ ~partial => SoFar(k)

FilterInv ==
  /\ FilterTypeOK
  /\ prog \in Seq(Blocks)
  /\ outcome = "idle" => at = <<1, 1>>
  /\ outcome = "running" => prog # <<>>
  /\ outcome # "refused" /\ prog # <<>> => \E k : ProgramInv(k)
  /\ outcome = "refused" => prog = <<>> \/ \E i \in DOMAIN asked : Wildcard(asked[i])
  /\ outcome \in Verdicts /\ ~partial => outcome = Decides(asked)

------------------------------------------------------------------------------
(* Small facts                                                             *)
LEMMA DecidesAt ==
  ASSUME NEW list \in Seq(Rules), NEW n \in 0..Len(list),
         \A i \in (n + 1)..Len(list) : ~Matches(list[i]),
         n > 0 => Matches(list[n])
  PROVE  Decides(list) = IF n = 0 THEN "deny" ELSE Verdict(list[n].allow)
<1> DEFINE I == {i \in 1..Len(list) : Matches(list[i])}
<1>1. Len(list) \in Nat
  BY LenProperties
<1>2. \A i \in I : i \in Nat /\ i <= n
  BY <1>1
<1>3. CASE n = 0
  <2>1. I = {}
    BY <1>2, <1>3
  <2>. QED BY <2>1, <1>3 DEF Decides, SelectLastInSeq
<1>4. CASE n # 0
  <2>1. n \in I
    BY <1>1, <1>4
  <2>2. Max(I) = n
    BY <1>2, <2>1 DEF Max
  <2>3. SelectLastInSeq(list, Matches) = n
    BY <2>1, <2>2 DEF SelectLastInSeq
  <2>. QED BY <2>3, <1>4 DEF Decides
<1>. QED BY <1>3, <1>4

LEMMA RuleTypes ==
  ASSUME NEW list \in Seq(Rules), NEW i \in 1..Len(list)
  PROVE  list[i] \in Rules /\ list[i] \in RuleType
BY ElementOfSeq, FilterAssumption

LEMMA BitsOf ==
  /\ \A t : BPFType(t) \in SUBSET Bits
  /\ \A a \in SUBSET FullAccess : BPFAccess(a) \in SUBSET Bits
  /\ \A a, b \in SUBSET FullAccess :
       BPFAccess(a) \cap BPFAccess(b) # {} <=> a \cap b # {}
<1>1. \A t : BPFType(t) \in SUBSET Bits
  BY DEF BPFType, Bits
<1>2. AccessBit["m"] = "bit0" /\ AccessBit["r"] = "bit1" /\ AccessBit["w"] = "bit2"
  BY DEF AccessBit
<1>3. \A x, y \in FullAccess : AccessBit[x] \in Bits /\ (AccessBit[x] = AccessBit[y] => x = y)
  BY <1>2 DEF FullAccess, Bits
<1>4. ASSUME NEW a \in SUBSET FullAccess PROVE BPFAccess(a) \in SUBSET Bits
  BY <1>3 DEF BPFAccess
<1>5. ASSUME NEW a \in SUBSET FullAccess, NEW b \in SUBSET FullAccess
      PROVE  BPFAccess(a) \cap BPFAccess(b) # {} <=> a \cap b # {}
  BY <1>3 DEF BPFAccess
<1>. QED BY <1>1, <1>4, <1>5

(* A rule matches when all tests of its block hold, and not when one does  *)
(* not.                                                                    *)
LEMMA PassedIsMatched ==
  ASSUME NEW rule \in RuleType, request \in RequestType
  PROVE  /\ (\A j \in 1..(Len(Block(rule)) - 1) : Passed(Block(rule)[j])) => Matches(rule)
         /\ \A j \in 1..(Len(Block(rule)) - 1) : ~Passed(Block(rule)[j]) => ~Matches(rule)
<1>1. IsBlock(rule, Block(rule))
  BY BlockOf
<1>2. rule.type # "a" => (Passed(Type(rule.type)) <=> rule.type = request.type)
  BY DEF Passed, Type, BPFType, RuleType, RequestType
<1>3. Passed(Access(rule.access)) <=> rule.access \cap request.access # {}
  BY BitsOf DEF Passed, Access, RuleType, RequestType
<1>4. /\ Passed(Number("major", rule.major)) <=> rule.major = request.major
      /\ Passed(Number("minor", rule.minor)) <=> rule.minor = request.minor
  BY DEF Passed, Number, RequestType
<1>5. ASSUME \A j \in 1..(Len(Block(rule)) - 1) : Passed(Block(rule)[j])
      PROVE  Matches(rule)
  BY <1>1, <1>2, <1>3, <1>4, <1>5 DEF IsBlock, Has, Matches
<1>6. ASSUME NEW j \in 1..(Len(Block(rule)) - 1), ~Passed(Block(rule)[j])
      PROVE  ~Matches(rule)
  BY <1>1, <1>2, <1>3, <1>4, <1>6 DEF IsBlock, TestOf, Matches
<1>. QED BY <1>5, <1>6

LEMMA MaxOf ==
  ASSUME NEW n \in Nat, NEW I \in SUBSET (1..n), I # {}
  PROVE  Max(I) \in I /\ \A i \in I : i <= Max(I)
<1> DEFINE D == {n - i : i \in I}
<1>1. D \in SUBSET Nat /\ D # {}
  <2>1. ASSUME NEW i \in I PROVE n - i \in Nat
    <3>1. i \in Nat /\ 1 <= i /\ i <= n
      OBVIOUS
    <3>. QED BY <3>1
  <2>. QED BY <2>1
<1>2. \E d \in D : \A e \in D : <<e, d>> \notin OpToRel(<, Nat)
  <2>. HIDE DEF D
  <2>. QED BY <1>1, NatLessThanWellFounded, WFMin
<1>3. PICK d \in D : \A e \in D : <<e, d>> \notin OpToRel(<, Nat)
  BY <1>2
<1>4. \A e \in D : ~(e < d)
  BY <1>1, <1>3 DEF OpToRel
<1>m. PICK m \in I : d = n - m
  OBVIOUS
<1>5. ASSUME NEW i \in I PROVE i <= m
  <2>1. n - i \in D /\ i \in 1..n /\ m \in 1..n
    OBVIOUS
  <2>2. ~(n - i < n - m)
    BY <1>4, <1>m, <2>1
  <2>. QED BY <2>1, <2>2
<1>. QED BY <1>5 DEF Max

------------------------------------------------------------------------------
(***************************************************************************)
(* Generation                                                              *)
(***************************************************************************)
(* The blocks of the rules from w on, which is the last wildcard, or 1.    *)
BlocksFrom(rules, blocks, w) ==
  /\ w \in 1..(Len(rules) + 1)
  /\ blocks \in Seq(Blocks)
  /\ Len(blocks) = Len(rules) - w + 1
  /\ \A b \in 1..Len(blocks) : blocks[b] = Block(rules[Len(rules) - b + 1])
  /\ IF \E i \in DOMAIN rules : Wildcard(rules[i])
       THEN w <= Len(rules) /\ Wildcard(rules[w]) ELSE w = 1

LEMMA RuleBlocksOf ==
  ASSUME NEW rules \in Seq(Rules)
  PROVE  \E w : BlocksFrom(rules, RuleBlocks(rules), w)
<1> DEFINE n == Len(rules)
           I == {i \in 1..n : Wildcard(rules[i])}
           wild == SelectLastInSeq(rules, Wildcard)
           used == IF wild = 0 THEN rules ELSE SubSeq(rules, wild, n)
<1>1. n \in Nat /\ DOMAIN rules = 1..n
  BY LenProperties
<1>2. wild = IF I # {} THEN Max(I) ELSE 0
  BY DEF SelectLastInSeq
<1>a. RuleBlocks(rules) = [b \in DOMAIN used |-> Block(Reverse(used)[b])]
  BY DEF RuleBlocks
<1> HIDE DEF wild
<1>3. I # {} => wild \in I
  BY <1>1, <1>2, MaxOf
<1>4. PICK w : /\ w \in 1..(n + 1)
               /\ IF I # {} THEN w \in I /\ w = wild ELSE w = 1 /\ wild = 0
  <2>1. CASE I # {}
    <3>1. wild \in I /\ wild \in 1..(n + 1)
      BY <1>1, <1>3, <2>1
    <3>. QED BY <2>1, <3>1
  <2>2. CASE I = {}
    BY <1>1, <1>2, <2>2
  <2>. QED BY <2>1, <2>2
<1>5. /\ used \in Seq(Rules)
      /\ Len(used) = n - w + 1
      /\ \A b \in 1..(n - w + 1) : used[b] = rules[w + b - 1]
  <2>1. CASE wild = 0
    BY <1>1, <1>3, <1>4, <2>1
  <2>2. CASE wild # 0
    <3>1. w = wild /\ w \in 1..n
      BY <1>2, <1>4, <2>2
    <3>2. \A i \in w..n : rules[i] \in Rules
      BY <1>1, <3>1, ElementOfSeq
    <3>3. /\ SubSeq(rules, w, n) \in Seq(Rules)
          /\ Len(SubSeq(rules, w, n)) = IF w <= n THEN n - w + 1 ELSE 0
          /\ \A b \in 1..(n - w + 1) : SubSeq(rules, w, n)[b] = rules[w + b - 1]
      <4>1. w \in Int /\ n \in Int
        BY <1>1, <3>1
      <4>. HIDE DEF n
      <4>. QED BY <3>2, <4>1, SubSeqProperties
    <3>. QED BY <1>1, <2>2, <3>1, <3>3
  <2>. QED BY <2>1, <2>2
<1> HIDE DEF used
<1>6. /\ DOMAIN used = 1..(n - w + 1)
      /\ \A b \in 1..(n - w + 1) : Reverse(used)[b] = rules[n - b + 1]
  <2>1. DOMAIN used = 1..(n - w + 1)
    BY <1>5, LenProperties
  <2>2. Reverse(used) = [i \in 1..(n - w + 1) |-> used[((n - w + 1) - i) + 1]]
    BY <1>5 DEF Reverse
  <2>3. n - w + 1 \in Nat
    BY <1>1, <1>4
  <2>4. ASSUME NEW b \in 1..(n - w + 1) PROVE Reverse(used)[b] = rules[n - b + 1]
    <3>1. ((n - w + 1) - b) + 1 \in 1..(n - w + 1)
      BY <2>3
    <3>2. w + (((n - w + 1) - b) + 1) - 1 = n - b + 1
      BY <1>1, <1>4
    <3>. QED BY <1>5, <2>2, <3>1, <3>2
  <2>. QED BY <2>1, <2>4
<1>7. RuleBlocks(rules) = [b \in 1..(n - w + 1) |-> Block(rules[n - b + 1])]
  BY <1>6, <1>a
<1>8. /\ RuleBlocks(rules) \in Seq(Blocks)
      /\ Len(RuleBlocks(rules)) = n - w + 1
  BY <1>1, <1>4, <1>7 DEF Blocks
<1>9. IF \E i \in DOMAIN rules : Wildcard(rules[i])
        THEN w <= n /\ Wildcard(rules[w]) ELSE w = 1
  <2>1. CASE I # {}
    <3>1. w \in I
      BY <1>4, <2>1
    <3>. QED BY <1>1, <3>1
  <2>2. CASE I = {}
    BY <1>1, <1>4, <2>2
  <2>. QED BY <2>1, <2>2
<1>10. BlocksFrom(rules, RuleBlocks(rules), w)
  BY <1>1, <1>4, <1>7, <1>8, <1>9 DEF BlocksFrom
<1>. QED BY <1>10

(* A load, blocks and what they are put in front of.                       *)
Assembled(p, blocks, original) ==
  /\ p \in Seq(Blocks)
  /\ Len(p) = 1 + Len(blocks) + Len(original)
  /\ p[1] = <<Load>>
  /\ \A b \in 1..Len(blocks) : p[1 + b] = blocks[b]
  /\ \A b \in 1..Len(original) : p[1 + Len(blocks) + b] = original[b]

LEMMA AssembledIs ==
  ASSUME NEW blocks \in Seq(Blocks), NEW original \in Seq(Blocks)
  PROVE  Assembled(<<<<Load>>>> \o blocks \o original, blocks, original)
<1> DEFINE l == <<<<Load>>>>
           lb == l \o blocks
           p == lb \o original
<1>1. l \in Seq(Blocks) /\ Len(l) = 1 /\ l[1] = <<Load>>
  BY DEF Blocks
<1> HIDE DEF l
<1>2. Len(blocks) \in Nat /\ Len(original) \in Nat
  BY LenProperties
<1>3. /\ lb \in Seq(Blocks)
      /\ Len(lb) = Len(l) + Len(blocks)
      /\ \A i \in 1..(Len(l) + Len(blocks)) :
           lb[i] = IF i <= Len(l) THEN l[i] ELSE blocks[i - Len(l)]
  BY <1>1, ConcatProperties, Zenon
<1> HIDE DEF lb
<1>4. /\ p \in Seq(Blocks)
      /\ Len(p) = Len(lb) + Len(original)
      /\ \A i \in 1..(Len(lb) + Len(original)) :
           p[i] = IF i <= Len(lb) THEN lb[i] ELSE original[i - Len(lb)]
  <2>1. lb \in Seq(Blocks)
    BY <1>3
  <2>. QED BY <2>1, ConcatProperties, Zenon
<1> HIDE DEF p
<1>5. Assembled(p, blocks, original)
  <2>1. Len(lb) = 1 + Len(blocks) /\ Len(p) = 1 + Len(blocks) + Len(original)
    BY <1>1, <1>2, <1>3, <1>4
  <2>2. p[1] = lb[1] /\ lb[1] = <<Load>>
    BY <1>1, <1>2, <1>3, <1>4, <2>1
  <2>3. ASSUME NEW b \in 1..Len(blocks) PROVE p[1 + b] = blocks[b]
    <3>1. p[1 + b] = lb[1 + b]
      BY <1>2, <1>4, <2>1
    <3>2. lb[1 + b] = blocks[b]
      BY <1>1, <1>2, <1>3
    <3>. QED BY <3>1, <3>2
  <2>4. ASSUME NEW b \in 1..Len(original) PROVE p[1 + Len(blocks) + b] = original[b]
    BY <1>2, <1>4, <2>1
  <2>. QED BY <1>4, <2>1, <2>2, <2>3, <2>4 DEF Assembled
<1>. QED BY <1>5 DEF p, lb, l

(* The first and the last instruction of a block.                          *)
LEMMA BlockEnds ==
  ASSUME NEW rule \in RuleType
  PROVE  /\ Len(Block(rule)) \in Nat \ {0}
         /\ ~Wildcard(rule) => Block(rule)[1].op # "return"
         /\ Wildcard(rule) => Block(rule)[1].op = "return"
         /\ Block(rule)[Len(Block(rule))] # BareReturn
         /\ Block(rule)[Len(Block(rule))].op = "return"
<1>1. IsBlock(rule, Block(rule))
  BY BlockOf
<1>2. Block(rule)[Len(Block(rule))] = Return(Verdict(rule.allow))
  BY <1>1 DEF IsBlock
<1>3. /\ Return(Verdict(rule.allow)).op = "return"
      /\ Return(Verdict(rule.allow)).verdict # BareReturn.verdict
  BY DEF Return, Verdict, BareReturn
<1>4. ~Wildcard(rule) => 1 \in 1..(Len(Block(rule)) - 1)
  <2>1. Len(Block(rule)) \in Nat \ {0}
    BY <1>1 DEF IsBlock
  <2>2. Wildcard(rule) <=> Len(Block(rule)) = 1
    BY DEF Wildcard
  <2>3. \A l \in Nat \ {0} : l # 1 => 1 \in 1..(l - 1)
    OBVIOUS
  <2>. QED BY <2>1, <2>2, <2>3
<1>5. \A i, j : TestOf(rule, i, j) => i.op # "return"
  BY DEF TestOf, Type, Access, Number
<1>. QED BY <1>1, <1>2, <1>3, <1>4, <1>5 DEF IsBlock, Wildcard

LEMMA InitRepresents ==
  ASSUME NEW rules \in Seq(Rules), Len(rules) <= 1
  PROVE  /\ RuncFilter(rules) \in Seq(Blocks)
         /\ \E k : /\ Represents(RuncFilter(rules), rules, k)
                  /\ RegisterReloaded(RuncFilter(rules), rules, k)
<1> DEFINE n == Len(rules)
           RB == RuleBlocks(rules)
           wildcard == \E i \in DOMAIN rules : Wildcard(rules[i])
           end == IF wildcard THEN <<>> ELSE <<Denial>>
           p == RuncFilter(rules)
<1>1. n \in {0, 1} /\ DOMAIN rules = 1..n
  <2>1. n \in Nat /\ DOMAIN rules = 1..n
    BY LenProperties
  <2>. QED BY <2>1
<1>2. PICK w : BlocksFrom(rules, RB, w)
  BY RuleBlocksOf
<1>3. /\ Len(RB) = n /\ RB \in Seq(Blocks)
      /\ n = 1 => RB[1] = Block(rules[1])
      /\ wildcard <=> n = 1 /\ Wildcard(rules[1])
  BY <1>1, <1>2 DEF BlocksFrom
<1>4. /\ end \in Seq(Blocks)
      /\ wildcard => Len(end) = 0
      /\ ~wildcard => Len(end) = 1 /\ end[1] = Denial
  BY DEF Blocks
<1>5. Assembled(p, RB, end)
  <2>1. p = <<<<Load>>>> \o RB \o end
    BY DEF RuncFilter, Denial
  <2> HIDE DEF RB, end, p
  <2>. QED BY <1>3, <1>4, <2>1, AssembledIs
<1> HIDE DEF RB, end, p, n, wildcard
<1>e. ~wildcard => Len(p) = n + 2 /\ p[n + 2] = Denial
  <2>1. ~wildcard => 1 \in 1..Len(end) /\ p[1 + Len(RB) + 1] = end[1]
    <3>1. ~wildcard => 1 \in 1..Len(end)
      BY <1>4
    <3>. QED BY <1>5, <3>1 DEF Assembled
  <2>2. 1 + n + 1 = n + 2
    BY <1>1
  <2>. QED BY <1>1, <1>3, <1>4, <1>5, <2>1, <2>2 DEF Assembled
<1>6. CASE n = 0
  <2>1. Len(p) = 2 /\ p[1] = <<Load>> /\ p[2] = Denial
    BY <1>3, <1>e, <1>5, <1>6 DEF Assembled
  <2> DEFINE k == [b \in 1..2 |-> 0]
  <2>2. Represents(p, rules, k) /\ RegisterReloaded(p, rules, k)
    BY <1>6, <2>1 DEF Represents, StandsFor, RegisterReloaded, n
  <2>. QED BY <1>5, <2>2 DEF Assembled, p
<1>7. CASE n = 1 /\ wildcard
  <2>1. Len(p) = 2 /\ p[1] = <<Load>> /\ p[2] = Block(rules[1]) /\ Wildcard(rules[1])
    BY <1>3, <1>4, <1>5, <1>7 DEF Assembled
  <2> DEFINE k == [b \in 1..2 |-> 1]
  <2>2. Represents(p, rules, k) /\ RegisterReloaded(p, rules, k)
    BY <1>7, <2>1 DEF Represents, StandsFor, RegisterReloaded, n
  <2>. QED BY <1>5, <2>2 DEF Assembled, p
<1>8. CASE n = 1 /\ ~wildcard
  <2>1. /\ Len(p) = 3 /\ p[1] = <<Load>> /\ p[2] = Block(rules[1]) /\ p[3] = Denial
        /\ ~Wildcard(rules[1])
    BY <1>3, <1>e, <1>5, <1>8 DEF Assembled
  <2> DEFINE k == [b \in 1..3 |-> IF b = 3 THEN 0 ELSE 1]
  <2>2. Represents(p, rules, k)
    BY <1>8, <2>1 DEF Represents, StandsFor, n
  <2>3. RegisterReloaded(p, rules, k)
    BY <1>8, <2>1 DEF RegisterReloaded, n
  <2>. QED BY <1>5, <2>2, <2>3 DEF Assembled, p
<1>. QED BY <1>1, <1>6, <1>7, <1>8

LEMMA PrependedIs ==
  ASSUME NEW rules \in Seq(Rules), NEW original \in Seq(Blocks)
  PROVE  Assembled(PrependDeviceFilter(rules, original), RuleBlocks(rules), original)
<1> DEFINE RB == RuleBlocks(rules)
<1>1. RB \in Seq(Blocks)
  BY RuleBlocksOf DEF BlocksFrom
<1>2. PrependDeviceFilter(rules, original) = <<<<Load>>>> \o RB \o original
  BY DEF PrependDeviceFilter
<1> HIDE DEF RB
<1>3. Assembled(PrependDeviceFilter(rules, original), RB, original)
  BY <1>1, <1>2, AssembledIs
<1>. QED BY <1>3 DEF RB

(* The verifier's two reasons to refuse.                                   *)
LEMMA WildcardRefused ==
  ASSUME NEW rules \in Seq(Rules), NEW original \in Seq(Blocks), original # <<>>,
         \E i \in DOMAIN rules : Wildcard(rules[i])
  PROVE  ~Verified(PrependDeviceFilter(rules, original))
<1> DEFINE RB == RuleBlocks(rules)
           p == PrependDeviceFilter(rules, original)
<1>1. Assembled(p, RB, original)
  BY PrependedIs
<1>2. PICK w : BlocksFrom(rules, RB, w)
  BY RuleBlocksOf
<1> HIDE DEF RB, p
<1>3. Len(rules) \in Nat /\ Len(original) \in Nat /\ Len(original) # 0
  BY LenProperties, EmptySeq
<1>4. /\ w \in 1..Len(rules) /\ Wildcard(rules[w])
      /\ Len(RB) = Len(rules) - w + 1
  BY <1>2, <1>3 DEF BlocksFrom
<1>5. RB[Len(RB)] = Block(rules[w])
  <2>1. Len(RB) \in 1..Len(RB) /\ Len(rules) - Len(RB) + 1 = w
    BY <1>3, <1>4
  <2>. QED BY <1>2, <2>1 DEF BlocksFrom
<1>6. p[1 + Len(RB)] = Block(rules[w]) /\ 1 + Len(RB) \in 1..(Len(p) - 1)
  <2>1. Len(RB) \in 1..Len(RB) /\ Len(p) = 1 + Len(RB) + Len(original)
    BY <1>1, <1>3, <1>4 DEF Assembled
  <2>2. p[1 + Len(RB)] = Block(rules[w])
    BY <1>1, <1>5, <2>1 DEF Assembled
  <2>3. 1 + Len(RB) \in 1..(Len(p) - 1)
    BY <1>3, <1>4, <2>1
  <2>. QED BY <2>2, <2>3
<1>7. Block(rules[w])[1].op = "return"
  BY <1>4, RuleTypes, BlockEnds
<1>8. ~Verified(p)
  BY <1>6, <1>7 DEF Verified
<1>. QED BY <1>8 DEF p

LEMMA BareReturnRefused ==
  ASSUME NEW rules \in Seq(Rules)
  PROVE  ~Verified(PrependDeviceFilter(rules, NoFilter))
<1> DEFINE RB == RuleBlocks(rules)
           p == PrependDeviceFilter(rules, NoFilter)
<1>1. NoFilter \in Seq(Blocks) /\ Len(NoFilter) = 1 /\ NoFilter[1] = <<BareReturn>>
  BY DEF NoFilter, Blocks
<1>2. Assembled(p, RB, NoFilter)
  BY <1>1, PrependedIs
<1>3. RB \in Seq(Blocks)
  BY RuleBlocksOf DEF BlocksFrom
<1> HIDE DEF RB, p
<1>4. Len(RB) \in Nat
  BY <1>3, LenProperties
<1>5. /\ p \in Seq(Blocks) /\ Len(p) = 2 + Len(RB)
      /\ p[1 + Len(RB) + 1] = <<BareReturn>>
  <2>1. 1 \in 1..Len(NoFilter)
    BY <1>1
  <2>. QED BY <1>1, <1>2, <1>4, <2>1 DEF Assembled
<1>6. 1 + Len(RB) + 1 \in DOMAIN p
  BY <1>4, <1>5, LenProperties
<1>7. <<BareReturn>>[Len(<<BareReturn>>)] = BareReturn
  OBVIOUS
<1>8. ~Verified(p)
  BY <1>5, <1>6, <1>7 DEF Verified
<1>. QED BY <1>8 DEF p

(* Any other program is loaded, and it stands for the old rules and then   *)
(* the new ones.                                                           *)
StandsForBoth(new, p, list, k, rules, l) ==
  /\ Represents(new, list \o rules, l)
  /\ RegisterReloaded(p, list, k) /\ ~PartialLater(rules) =>
       RegisterReloaded(new, list \o rules, l)

LEMMA Prepended ==
  ASSUME NEW p \in Seq(Blocks), NEW list \in Seq(Rules), NEW k, Represents(p, list, k),
         NEW rules \in Seq(Rules), \A i \in DOMAIN rules : ~Wildcard(rules[i])
  PROVE  /\ PrependDeviceFilter(rules, p) \in Seq(Blocks)
         /\ Verified(PrependDeviceFilter(rules, p))
         /\ \E l : StandsForBoth(PrependDeviceFilter(rules, p), p, list, k, rules, l)
<1> DEFINE RB == RuleBlocks(rules)
           new == PrependDeviceFilter(rules, p)
           both == list \o rules
           m == Len(list)
           n == Len(rules)
           l == [b \in 1..Len(new) |-> IF b = 1 THEN m + n
                                       ELSE IF b <= 1 + n THEN m + n - b + 2
                                       ELSE k[b - 1 - n]]
<1>1. Assembled(new, RB, p)
  BY PrependedIs
<1>2. PICK w : BlocksFrom(rules, RB, w)
  BY RuleBlocksOf
<1>3. m \in Nat /\ n \in Nat /\ DOMAIN rules = 1..n /\ Len(p) \in Nat
  BY LenProperties
<1>4. /\ both \in Seq(Rules)
      /\ Len(both) = m + n
      /\ \A i \in 1..(m + n) : both[i] = IF i <= m THEN list[i] ELSE rules[i - m]
  BY ConcatProperties, Zenon
<1>5. /\ \A i \in 1..m : list[i] \in RuleType
      /\ \A i \in 1..n : rules[i] \in RuleType
  BY RuleTypes
<1> HIDE DEF RB, new, both, m, n, l
<1>6. /\ Len(RB) = n
      /\ \A b \in 1..n : RB[b] = Block(rules[n - b + 1])
  <2>1. w = 1
    BY <1>2 DEF BlocksFrom
  <2>2. Len(RB) = n
    BY <1>2, <1>3, <2>1 DEF BlocksFrom, n
  <2>. QED BY <1>2, <2>2 DEF BlocksFrom, n
<1>7. /\ k \in [1..Len(p) -> 0..m]
      /\ Len(p) >= 1 /\ p[1] = <<Load>> /\ k[1] = m
      /\ \A b \in 1..Len(p) : StandsFor(p, list, k, b)
  BY DEF Represents, m
<1>8. /\ new \in Seq(Blocks)
      /\ Len(new) = 1 + n + Len(p)
      /\ new[1] = <<Load>>
      /\ \A b \in 1..n : new[1 + b] = Block(rules[n - b + 1])
      /\ \A b \in 1..Len(p) : new[1 + n + b] = p[b]
  BY <1>1, <1>6 DEF Assembled
<1>9. /\ l \in [1..Len(new) -> 0..(m + n)]
      /\ l[1] = m + n
      /\ \A b \in 1..n : l[1 + b] = m + n - b + 1
      /\ \A b \in 1..Len(p) : l[1 + n + b] = k[b]
  <2>1. ASSUME NEW b \in 1..Len(new) PROVE l[b] \in 0..(m + n)
    <3>0. CASE b = 1
      BY <1>3, <3>0 DEF l
    <3>1. CASE b # 1 /\ b <= 1 + n
      <4>1. l[b] = m + n - b + 2
        BY <3>1 DEF l
      <4>2. b \in Nat /\ 2 <= b /\ b <= 1 + n
        <5>1. \A i \in 1..Len(new) : i # 1 => i \in Nat /\ 2 <= i
          BY <1>3, <1>8
        <5>. QED BY <3>1, <5>1
      <4>. QED BY <1>3, <4>1, <4>2
    <3>2. CASE ~(b <= 1 + n)
      <4>1. b - 1 - n \in 1..Len(p) /\ l[b] = k[b - 1 - n]
        BY <1>3, <1>8, <3>2 DEF l
      <4>2. k[b - 1 - n] \in 0..m
        BY <1>7, <4>1
      <4>. QED BY <1>3, <4>1, <4>2
    <3>. QED BY <1>3, <3>0, <3>1, <3>2
  <2>2. l[1] = m + n
    BY <1>3, <1>8 DEF l
  <2>3. ASSUME NEW b \in 1..n PROVE l[1 + b] = m + n - b + 1
    BY <1>3, <1>8 DEF l
  <2>4. ASSUME NEW b \in 1..Len(p) PROVE l[1 + n + b] = k[b]
    BY <1>3, <1>8 DEF l
  <2>5. l \in [1..Len(new) -> 0..(m + n)]
    BY <2>1 DEF l
  <2>. QED BY <2>2, <2>3, <2>4, <2>5
(* A block is the load, one of the new rules' or one of the old program.   *)
<1>10. \A b \in 1..Len(new) :
         \/ b = 1
         \/ \E c \in 1..n : b = 1 + c
         \/ \E c \in 1..Len(p) : b = 1 + n + c
  <2> SUFFICES ASSUME NEW b \in 1..Len(new), b # 1
      PROVE  (\E c \in 1..n : b = 1 + c) \/ (\E c \in 1..Len(p) : b = 1 + n + c)
    OBVIOUS
  <2>1. CASE b <= 1 + n
    <3>1. b - 1 \in 1..n /\ b = 1 + (b - 1)
      BY <1>3, <1>8, <2>1
    <3>. QED BY <3>1
  <2>2. CASE ~(b <= 1 + n)
    <3>1. b - 1 - n \in 1..Len(p) /\ b = 1 + n + (b - 1 - n)
      BY <1>3, <1>8, <2>2
    <3>. QED BY <3>1
  <2>. QED BY <2>1, <2>2
<1>11. 1 < Len(new) /\ l[2] = l[1]
  <2>1. CASE n = 0
    <3>1. 1 \in 1..Len(p) /\ 1 + n + 1 = 2 /\ m + n = m
      BY <1>3, <1>7, <2>1
    <3>2. l[1 + n + 1] = k[1]
      BY <1>9, <3>1
    <3>. QED BY <1>3, <1>7, <1>8, <1>9, <3>1, <3>2
  <2>2. CASE n # 0
    <3>1. 1 \in 1..n /\ m + n - 1 + 1 = m + n
      BY <1>3, <2>2
    <3>2. l[1 + 1] = m + n - 1 + 1
      BY <1>9, <3>1
    <3>. QED BY <1>3, <1>7, <1>8, <1>9, <3>1, <3>2
  <2>. QED BY <2>1, <2>2
<1>12. ASSUME NEW c \in 1..n
       PROVE  /\ 1 + c < Len(new)
              /\ l[1 + c] = m + n - c + 1 /\ l[1 + c] > 0
              /\ both[l[1 + c]] = rules[n - c + 1]
              /\ new[1 + c] = Block(both[l[1 + c]])
              /\ l[1 + c + 1] = l[1 + c] - 1
              /\ ~Wildcard(both[l[1 + c]])
              /\ c = n => new[1 + c + 1] = <<Load>>
  <2>1. /\ 1 + c < Len(new) /\ m + n - c + 1 \in (m + 1)..(m + n)
        /\ (m + n - c + 1) - m = n - c + 1 /\ n - c + 1 \in 1..n
    <3>1. c \in Nat /\ 1 <= c /\ c <= n /\ Len(new) = 1 + n + Len(p) /\ Len(p) >= 1
      BY <1>3, <1>7, <1>8
    <3>. QED BY <1>3, <3>1
  <2>2. l[1 + c] = m + n - c + 1
    BY <1>9
  <2>3. both[l[1 + c]] = rules[n - c + 1]
    BY <1>3, <1>4, <2>1, <2>2
  <2>4. l[1 + c + 1] = m + n - c
    <3>1. CASE c = n
      <4>1. 1 \in 1..Len(p) /\ m + n - c = m
        BY <1>3, <1>7, <3>1
      <4>2. l[1 + n + 1] = k[1]
        BY <1>9, <4>1
      <4>. QED BY <1>7, <3>1, <4>1, <4>2
    <3>2. CASE c # n
      <4>1. c + 1 \in 1..n /\ 1 + (c + 1) = 1 + c + 1 /\ m + n - (c + 1) + 1 = m + n - c
        BY <1>3, <3>2
      <4>2. l[1 + (c + 1)] = m + n - (c + 1) + 1
        BY <1>9, <4>1
      <4>. QED BY <4>1, <4>2
    <3>. QED BY <3>1, <3>2
  <2>5. c = n => new[1 + c + 1] = <<Load>>
    <3>1. 1 \in 1..Len(p)
      BY <1>7, <1>3
    <3>. QED BY <1>7, <1>8, <3>1
  <2>6. l[1 + c] > 0 /\ m + n - c = (m + n - c + 1) - 1
    BY <1>3, <2>1, <2>2
  <2>7. new[1 + c] = Block(both[l[1 + c]])
    BY <1>8, <2>3
  <2>8. ~Wildcard(both[l[1 + c]])
    BY <1>3, <2>1, <2>3
  <2>. QED BY <2>1, <2>2, <2>3, <2>4, <2>5, <2>6, <2>7, <2>8
<1>13. ASSUME NEW c \in 1..Len(p)
       PROVE  /\ new[1 + n + c] = p[c] /\ l[1 + n + c] = k[c]
              /\ k[c] \in 0..m /\ (k[c] > 0 => both[k[c]] = list[k[c]])
              /\ c < Len(p) <=> 1 + n + c < Len(new)
              /\ c = Len(p) <=> 1 + n + c = Len(new)
              /\ c < Len(p) => /\ new[1 + n + c + 1] = p[c + 1]
                               /\ l[1 + n + c + 1] = k[c + 1]
  <2>1. c < Len(p) => c + 1 \in 1..Len(p) /\ 1 + n + (c + 1) = 1 + n + c + 1
    BY <1>3
  <2>2. k[c] \in 0..m
    BY <1>7
  <2>3. k[c] > 0 => both[k[c]] = list[k[c]]
    BY <1>3, <1>4, <2>2
  <2>4. (c < Len(p) <=> 1 + n + c < Len(new)) /\ (c = Len(p) <=> 1 + n + c = Len(new))
    BY <1>3, <1>8
  <2>5. new[1 + n + c] = p[c] /\ l[1 + n + c] = k[c]
    BY <1>8, <1>9
  <2>6. c < Len(p) => new[1 + n + (c + 1)] = p[c + 1] /\ l[1 + n + (c + 1)] = k[c + 1]
    BY <1>8, <1>9, <2>1
  <2>. QED BY <2>1, <2>2, <2>3, <2>4, <2>5, <2>6
<1>14. Represents(new, both, l)
  <2>1. ASSUME NEW b \in 1..Len(new) PROVE StandsFor(new, both, l, b)
    <3>1. CASE b = 1
      BY <1>8, <1>11, <3>1 DEF StandsFor
    <3>2. ASSUME NEW c \in 1..n, b = 1 + c PROVE StandsFor(new, both, l, b)
      BY <1>12, <3>2 DEF StandsFor
    <3>3. ASSUME NEW c \in 1..Len(p), b = 1 + n + c PROVE StandsFor(new, both, l, b)
      <4>1. StandsFor(p, list, k, c)
        BY <1>7
      <4>. QED BY <1>13, <3>3, <4>1 DEF StandsFor
    <3>. QED BY <1>10, <3>1, <3>2, <3>3
  <2>2. Len(new) >= 1
    BY <1>3, <1>8
  <2>. QED BY <1>4, <1>8, <1>9, <2>1, <2>2 DEF Represents
<1>15. ASSUME RegisterReloaded(p, list, k), ~PartialLater(rules)
       PROVE  RegisterReloaded(new, both, l)
  <2> SUFFICES ASSUME NEW b \in 1..(Len(new) - 1),
                      l[b + 1] = l[b] - 1, both[l[b]].access # FullAccess
               PROVE  new[b + 1] \in {<<Load>>, Denial}
    BY DEF RegisterReloaded
  <2>1. b \in 1..Len(new) /\ b < Len(new)
    BY <1>3, <1>8
  <2>2. b # 1
    BY <1>3, <1>9, <1>11
  <2>3. ASSUME NEW c \in 1..n, b = 1 + c PROVE new[b + 1] = <<Load>>
    <3>1. rules[n - c + 1].access # FullAccess /\ n - c + 1 \in 1..n
      BY <1>3, <1>12, <2>3
    <3>2. n - c + 1 = 1
      BY <1>3, <1>15, <3>1 DEF PartialLater
    <3>3. c = n
      BY <1>3, <3>2
    <3>. QED BY <1>12, <2>3, <3>3
  <2>4. ASSUME NEW c \in 1..Len(p), b = 1 + n + c PROVE new[b + 1] \in {<<Load>>, Denial}
    <3>1. c < Len(p) /\ c \in 1..(Len(p) - 1) /\ k[c + 1] = k[c] - 1
      BY <1>3, <1>13, <2>1, <2>4
    <3>2. k[c] > 0
      <4>1. c + 1 \in 1..Len(p)
        BY <1>3, <3>1
      <4>2. k[c + 1] \in 0..m /\ k[c] \in 0..m
        BY <1>7, <4>1
      <4>. QED BY <1>3, <3>1, <4>2
    <3>3. list[k[c]].access # FullAccess
      BY <1>13, <2>4, <3>2
    <3>4. p[c + 1] \in {<<Load>>, Denial}
      BY <1>15, <3>1, <3>3 DEF RegisterReloaded
    <3>. QED BY <1>13, <2>4, <3>1, <3>4
  <2>. QED BY <1>10, <2>1, <2>2, <2>3, <2>4
<1>16. Verified(new)
  <2>1. DOMAIN new = 1..Len(new)
    BY <1>8, LenProperties
  <2>2. ASSUME NEW r \in RuleType
        PROVE  /\ Block(r)[Len(Block(r))] # BareReturn
               /\ ~Wildcard(r) => Block(r)[1].op # "return"
    BY BlockEnds
  <2>3. /\ <<Load>>[Len(<<Load>>)] # BareReturn /\ <<Load>>[1].op # "return"
        /\ Denial[Len(Denial)] # BareReturn
    <3>1. Load.op # BareReturn.op /\ BareReturn.op = "return"
      BY DEF Load, BareReturn
    <3>2. Return("deny").verdict # BareReturn.verdict
      BY DEF Return, BareReturn
    <3>. QED BY <3>1, <3>2 DEF Denial
  <2>4. ASSUME NEW b \in 1..Len(new)
        PROVE  /\ b < Len(new) => new[b][1].op # "return"
               /\ new[b][Len(new[b])] # BareReturn
    <3>1. CASE new[b] = <<Load>>
      BY <2>3, <3>1
    <3>2. CASE new[b] = Denial /\ b = Len(new)
      BY <1>3, <1>8, <2>3, <3>2
    <3>3. CASE /\ l[b] > 0 /\ new[b] = Block(both[l[b]])
               /\ b < Len(new) => ~Wildcard(both[l[b]])
      <4>1. l[b] \in 1..Len(both)
        BY <1>3, <1>4, <1>9, <3>3
      <4>2. both[l[b]] \in RuleType
        BY <1>4, <4>1, RuleTypes
      <4>. QED BY <2>2, <3>3, <4>2
    <3>. QED BY <1>14, <3>1, <3>2, <3>3 DEF Represents, StandsFor
  <2>5. \A b \in 1..(Len(new) - 1) : b \in 1..Len(new) /\ b < Len(new)
    BY <1>3, <1>8
  <2>. QED BY <2>1, <2>4, <2>5 DEF Verified
<1>17. StandsForBoth(new, p, list, k, rules, l)
  BY <1>14, <1>15 DEF StandsForBoth, both
<1>. QED BY <1>8, <1>16, <1>17 DEF new

------------------------------------------------------------------------------
(***************************************************************************)
(* The steps                                                               *)
(***************************************************************************)
LEMMA ListsAreSequences == \A max \in Nat : RuleLists(max) \subseteq Seq(Rules)
BY DEF RuleLists

LEMMA OneRule == ASSUME NEW list \in RuleLists(1) PROVE list \in Seq(Rules) /\ Len(list) <= 1
<1>1. PICK n \in 0..1 : list \in [1..n -> Rules]
  BY DEF RuleLists
<1>. QED BY <1>1

LEMMA FilterInitInv == Init => FilterInv
<1> SUFFICES ASSUME Init PROVE FilterInv
  OBVIOUS
<1>1. FilterTypeOK
  <2>1. asked \in Seq(Rules)
    <3>1. asked = <<>> \/ asked \in RuleLists(1)
      BY DEF Init
    <3>. QED BY <3>1, OneRule, EmptySeq
  <2>2. at = <<1, 1>>
    BY DEF Init
  <2>3. calls \in 0..MaxCalls /\ partial \in BOOLEAN /\ at \in Nat \X Nat
    <3>1. calls = 0 /\ partial = FALSE
      BY DEF Init
    <3>2. 0 \in 0..MaxCalls
      BY FilterAssumption
    <3>. QED BY <2>2, <3>1, <3>2
  <2>. QED BY <2>1, <2>3 DEF Init, FilterTypeOK
<1>2. CASE prog = <<>>
  BY <1>1, <1>2 DEF Init, FilterInv, Verdicts
<1>3. CASE asked \in RuleLists(1) /\ prog = RuncFilter(asked)
  <2>1. asked \in Seq(Rules) /\ Len(asked) <= 1
    BY <1>3, OneRule
  <2>2. prog \in Seq(Blocks)
    BY <1>3, <2>1, InitRepresents
  <2>3. PICK k : Represents(prog, asked, k) /\ RegisterReloaded(prog, asked, k)
    BY <1>3, <2>1, InitRepresents
  <2>4. ProgramInv(k)
    BY <2>3 DEF ProgramInv, Init
  <2>. QED BY <1>1, <2>2, <2>4 DEF Init, FilterInv, Verdicts
<1>. QED BY <1>2, <1>3 DEF Init

LEMMA GenerateInv ==
  ASSUME FilterInv, NEW rules \in RuleLists(MaxRules), GenerateNewProgram(rules)
  PROVE  FilterInv'
<1> DEFINE original == IF prog = <<>> THEN NoFilter ELSE prog
           new == PrependDeviceFilter(rules, original)
           wildcard == \E i \in DOMAIN rules : Wildcard(rules[i])
<1>1. /\ rules \in Seq(Rules) /\ asked \in Seq(Rules) /\ prog \in Seq(Blocks)
      /\ outcome = "idle" /\ at = <<1, 1>>
  BY ListsAreSequences, FilterAssumption DEF FilterInv, FilterTypeOK, GenerateNewProgram
<1>2. /\ asked' = asked \o rules
      /\ partial' = (partial \/ PartialLater(rules))
      /\ UNCHANGED <<request, at, reg>>
      /\ IF Verified(new) THEN prog' = new /\ outcome' = outcome
                          ELSE outcome' = "refused" /\ prog' = prog
  BY Zenon DEF GenerateNewProgram
<1>3. asked' \in Seq(Rules)
  <2>1. asked \o rules \in Seq(Rules)
    BY <1>1, ConcatProperties
  <2>. QED BY <1>2, <2>1
<1>4. FilterTypeOK'
  <2>1. calls' \in 0..MaxCalls
    BY FilterAssumption DEF GenerateNewProgram, FilterInv, FilterTypeOK
  <2>2. outcome' \in {"idle", "refused"}
    BY <1>1, <1>2
  <2>3. partial' \in BOOLEAN
    BY <1>2 DEF FilterInv, FilterTypeOK, PartialLater
  <2>. QED BY <1>2, <1>3, <2>1, <2>2, <2>3 DEF FilterInv, FilterTypeOK
<1> HIDE DEF new
<1>5. CASE prog = <<>>
  <2>1. ~Verified(new)
    BY <1>1, <1>5, BareReturnRefused DEF new
  <2>. QED BY <1>1, <1>2, <1>4, <1>5, <2>1 DEF FilterInv, Verdicts
<1>6. CASE prog # <<>> /\ wildcard
  <2>1. ~Verified(new)
    BY <1>1, <1>6, WildcardRefused DEF new
  <2>2. \E i \in DOMAIN asked' : Wildcard(asked'[i])
    <3>1. PICK i \in DOMAIN rules : Wildcard(rules[i])
      BY <1>6
    <3>2. /\ Len(asked) \in Nat /\ Len(rules) \in Nat /\ i \in 1..Len(rules)
          /\ DOMAIN asked' = 1..Len(asked')
      BY <1>1, <1>3, <3>1, LenProperties
    <3>3. /\ Len(asked \o rules) = Len(asked) + Len(rules)
          /\ \A j \in 1..(Len(asked) + Len(rules)) :
               (asked \o rules)[j] = IF j <= Len(asked) THEN asked[j]
                                     ELSE rules[j - Len(asked)]
      BY <1>1, ConcatProperties, Zenon
    <3>4. Len(asked) + i \in DOMAIN asked' /\ asked'[Len(asked) + i] = rules[i]
      BY <1>2, <3>2, <3>3
    <3>. QED BY <3>1, <3>4
  <2>. QED BY <1>1, <1>2, <1>4, <2>1, <2>2 DEF FilterInv, Verdicts
<1>7. CASE prog # <<>> /\ ~wildcard
  <2>1. PICK k : ProgramInv(k)
    BY <1>1, <1>7 DEF FilterInv
  <2>2. /\ Represents(prog, asked, k)
        /\ ~partial => RegisterReloaded(prog, asked, k)
    BY <2>1 DEF ProgramInv
  <2>3. new = PrependDeviceFilter(rules, prog)
    BY <1>7 DEF new
  <2>4. \A i \in DOMAIN rules : ~Wildcard(rules[i])
    BY <1>7
  <2>5. new \in Seq(Blocks) /\ Verified(new)
    BY <1>1, <2>2, <2>3, <2>4, Prepended
  <2>6. PICK l : StandsForBoth(new, prog, asked, k, rules, l)
    BY <1>1, <2>2, <2>3, <2>4, Prepended
  <2>7. prog' = new /\ outcome' = "idle"
    BY <1>1, <1>2, <2>5
  <2>8. Represents(prog', asked', l)
    BY <1>2, <2>6, <2>7 DEF StandsForBoth
  <2>9. ~partial' => RegisterReloaded(prog', asked', l)
    BY <1>2, <2>2, <2>6, <2>7 DEF StandsForBoth
  <2>10. ProgramInv(l)'
    BY <2>7, <2>8, <2>9 DEF ProgramInv
  <2>11. prog' \in Seq(Blocks)
    BY <2>5, <2>7
  <2>. QED BY <1>1, <1>2, <1>4, <2>7, <2>10, <2>11 DEF FilterInv, Verdicts
<1>. QED BY <1>5, <1>6, <1>7

LEMMA TryInv ==
  ASSUME FilterInv, NEW access \in Requests, Try(access)
  PROVE  FilterInv'
<1>1. /\ outcome = "idle" /\ outcome' = "running" /\ prog # <<>> /\ request' = access
      /\ at = <<1, 1>>
      /\ UNCHANGED <<prog, at, reg, calls, asked, partial>>
  BY DEF Try, FilterInv
<1>2. FilterTypeOK'
  BY <1>1 DEF FilterInv, FilterTypeOK
<1>3. PICK k : ProgramInv(k)
  BY <1>1 DEF FilterInv
<1>4. /\ Len(prog) >= 1 /\ prog[1] = <<Load>> /\ k[1] = Len(asked) /\ Len(prog) \in Nat
      /\ Len(asked) \in Nat
  BY <1>3, LenProperties DEF ProgramInv, Represents, FilterInv, FilterTypeOK
<1>5. at'[1] = 1 /\ at'[2] = 1 /\ Len(<<Load>>) = 1
  BY <1>1
<1>6. InProgram'
  BY <1>1, <1>4, <1>5 DEF InProgram
<1>7. SoFar(k)'
  <2>1. \A i \in (k[1] + 1)..Len(asked) : FALSE
    BY <1>4
  <2>2. \A j \in 1..(1 - 1) : FALSE
    OBVIOUS
  <2>3. prog'[at'[1]] = <<Load>> /\ k[at'[1]] = k[1] /\ asked' = asked
    BY <1>1, <1>4, <1>5
  <2>. QED BY <1>5, <2>1, <2>2, <2>3 DEF SoFar
<1>8. ProgramInv(k)'
  BY <1>1, <1>3, <1>6, <1>7 DEF ProgramInv
<1>. QED BY <1>1, <1>2, <1>8 DEF FilterInv, Verdicts

(***************************************************************************)
(* Where a running program can be.                                         *)
(***************************************************************************)
AtLoad(k) ==
  /\ prog[at[1]] = <<Load>> /\ at[2] = 1 /\ Instruction = Load
  /\ at[1] < Len(prog) /\ k[at[1] + 1] = k[at[1]]

InBlock(k) ==
  /\ k[at[1]] \in 1..Len(asked)
  /\ asked[k[at[1]]] \in RuleType
  /\ prog[at[1]] = Block(asked[k[at[1]]])

AtTest(k) ==
  /\ InBlock(k)
  /\ at[2] \in 1..(Len(prog[at[1]]) - 1)
  /\ TestOf(asked[k[at[1]]], Instruction, at[2])
  /\ at[1] < Len(prog) /\ k[at[1] + 1] = k[at[1]] - 1

AtVerdict(k) ==
  /\ InBlock(k)
  /\ at[2] = Len(prog[at[1]])
  /\ Instruction = Return(Verdict(asked[k[at[1]]].allow))

AtDenial(k) == prog[at[1]] = Denial /\ Instruction = Return("deny") /\ k[at[1]] = 0

LEMMA WhereItIs ==
  ASSUME FilterInv, outcome = "running", NEW k, ProgramInv(k)
  PROVE  /\ AtLoad(k) \/ AtTest(k) \/ AtVerdict(k) \/ AtDenial(k)
         /\ at \in Nat \X Nat /\ Len(prog) \in Nat /\ Len(asked) \in Nat
         /\ InProgram
<1> DEFINE b == at[1]
<1>1. /\ InProgram /\ Represents(prog, asked, k) /\ at \in Nat \X Nat
      /\ asked \in Seq(Rules) /\ prog \in Seq(Blocks)
  BY DEF ProgramInv, FilterInv, FilterTypeOK
<1>2. Len(prog) \in Nat /\ Len(asked) \in Nat
  BY <1>1, LenProperties
<1>3. b \in 1..Len(prog) /\ at[2] \in 1..Len(prog[b]) /\ k[b] \in 0..Len(asked)
  BY <1>1 DEF InProgram, Represents
<1>4. StandsFor(prog, asked, k, b)
  BY <1>1, <1>3 DEF Represents
<1>5. CASE prog[b] = <<Load>> /\ b < Len(prog) /\ k[b + 1] = k[b]
  <2>1. at[2] = 1 /\ <<Load>>[1] = Load
    BY <1>3, <1>5
  <2>2. AtLoad(k)
    BY <1>5, <2>1 DEF AtLoad, Instruction
  <2>. QED BY <1>1, <1>2, <2>2
<1>6. CASE /\ k[b] > 0 /\ prog[b] = Block(asked[k[b]])
           /\ IF b < Len(prog) THEN k[b + 1] = k[b] - 1 /\ ~Wildcard(asked[k[b]])
                               ELSE Wildcard(asked[k[b]])
  <2> DEFINE rule == asked[k[b]]
  <2>1. k[b] \in 1..Len(asked)
    BY <1>2, <1>3, <1>6
  <2>2. rule \in RuleType
    BY <1>1, <2>1, RuleTypes
  <2>3. IsBlock(rule, Block(rule))
    BY <2>2, BlockOf
  <2>4. InBlock(k)
    BY <1>6, <2>1, <2>2 DEF InBlock
  <2>5. Len(Block(rule)) \in Nat \ {0}
    BY <2>3 DEF IsBlock
  <2>6. CASE at[2] = Len(Block(rule))
    <3>1. AtVerdict(k)
      BY <1>6, <2>3, <2>4, <2>6 DEF AtVerdict, IsBlock, Instruction
    <3>. QED BY <1>1, <1>2, <3>1
  <2>7. CASE at[2] # Len(Block(rule))
    <3>1. at[2] \in 1..(Len(Block(rule)) - 1) /\ Len(Block(rule)) # 1
      <4>1. \A l \in Nat \ {0} : \A j \in 1..l : j # l => j \in 1..(l - 1) /\ l # 1
        OBVIOUS
      <4>2. at[2] \in 1..Len(Block(rule))
        BY <1>3, <1>6
      <4>. QED BY <2>5, <2>7, <4>1, <4>2
    <3>2. ~Wildcard(rule)
      BY <3>1 DEF Wildcard
    <3>3. AtTest(k)
      BY <1>6, <2>3, <2>4, <3>1, <3>2 DEF AtTest, IsBlock, Instruction
    <3>. QED BY <1>1, <1>2, <3>3
  <2>. QED BY <2>6, <2>7
<1>7. CASE prog[b] = Denial /\ b = Len(prog) /\ k[b] = 0
  <2>1. at[2] = 1 /\ Denial[1] = Return("deny")
    BY <1>3, <1>7 DEF Denial
  <2>2. AtDenial(k)
    BY <1>7, <2>1 DEF AtDenial, Instruction
  <2>. QED BY <1>1, <1>2, <2>2
<1>. QED BY <1>4, <1>5, <1>6, <1>7 DEF StandsFor

(* What no step of the execution changes.                                  *)
Given == <<prog, request, calls, asked, partial>>

LEMMA SameDecision == ASSUME UNCHANGED Given PROVE Decides(asked)' = Decides(asked)
BY DEF Given, Decides, SelectLastInSeq, Matches

LEMMA SoFarNext ==
  ASSUME UNCHANGED Given, NEW k, NEW b, NEW j, at' = <<b, j>>,
         \A i \in (k[b] + 1)..Len(asked) : ~Matches(asked[i]),
         \A i \in 1..(j - 1) : Passed(prog[b][i]),
         \/ prog[b] \in {<<Load>>, Denial}
         \/ reg' = BPFType(request.type)
         \/ j > 1 /\ asked[k[b]].access # FullAccess
  PROVE  SoFar(k)'
<1>1. at'[1] = b /\ at'[2] = j /\ prog' = prog /\ asked' = asked /\ request' = request
  BY DEF Given
<1>2. \A i \in (k[b] + 1)..Len(asked) : ~Matches(asked[i])'
  BY <1>1 DEF Matches
<1>3. \A i \in 1..(j - 1) :
        CASE prog[b][i].op = "type" -> prog[b][i].bits = BPFType(request'.type)
          [] prog[b][i].op = "access" ->
               prog[b][i].bits \cap BPFAccess(request'.access) # {}
          [] prog[b][i].op = "number" -> request'[prog[b][i].reg] = prog[b][i].value
          [] OTHER -> TRUE
  BY <1>1 DEF Passed
<1>. QED BY <1>1, <1>2, <1>3 DEF SoFar, Matches, Passed

(* On to the next instruction of the block.                                *)
LEMMA AdvanceInv ==
  ASSUME FilterInv, outcome = "running", NEW k, ProgramInv(k), AtTest(k), Advance,
         UNCHANGED Given, outcome' = outcome,
         ~partial => Passed(Instruction),
         ~partial => \/ reg' = BPFType(request.type)
                     \/ asked[k[at[1]]].access # FullAccess
  PROVE  ProgramInv(k)'
<1>1. /\ at \in Nat \X Nat /\ Len(prog) \in Nat /\ Len(asked) \in Nat /\ InProgram
      /\ at[2] \in 1..(Len(prog[at[1]]) - 1)
  BY WhereItIs DEF AtTest
<1>2. Len(prog[at[1]]) \in Nat
  BY BlockEnds DEF AtTest, InBlock
<1>3. at' = <<at[1], at[2] + 1>>
  BY <1>1, <1>2 DEF Advance
<1>4. at'[1] = at[1] /\ at'[2] = at[2] + 1
  BY <1>3
<1>5. InProgram'
  BY <1>1, <1>2, <1>4 DEF InProgram, Given
<1>6. ASSUME ~partial PROVE SoFar(k)'
  <2>1. SoFar(k)
    BY <1>6 DEF ProgramInv
  <2>2. \A i \in (k[at[1]] + 1)..Len(asked) : ~Matches(asked[i])
    BY <2>1 DEF SoFar
  <2>3. ASSUME NEW j \in 1..((at[2] + 1) - 1) PROVE Passed(prog[at[1]][j])
    <3>1. j = at[2] \/ j \in 1..(at[2] - 1)
      BY <1>1
    <3>. QED BY <1>6, <2>1, <3>1 DEF SoFar, Instruction
  <2>4. at[2] + 1 > 1
    BY <1>1
  <2>. QED BY <1>3, <1>6, <2>2, <2>3, <2>4, SoFarNext
<1>. QED BY <1>5, <1>6 DEF ProgramInv, Given

LEMMA ShortBlocks == \A b \in {<<Load>>, Denial} : Len(b) = 1
<1>1. Len(<<Load>>) = 1
  OBVIOUS
<1>2. Len(Denial) = 1
  BY DEF Denial
<1>. QED BY <1>1, <1>2, Zenon

(* On to the next block, past a rule that does not match.                  *)
LEMMA NextBlockInv ==
  ASSUME FilterInv, outcome = "running", NEW k, ProgramInv(k),
         at' = <<at[1] + 1, 1>>, at[1] < Len(prog),
         UNCHANGED Given, outcome' = outcome,
         \/ k[at[1] + 1] = k[at[1]]
         \/ /\ k[at[1] + 1] = k[at[1]] - 1
            /\ ~partial => ~Matches(asked[k[at[1]]]),
         ~partial => \/ prog[at[1] + 1] \in {<<Load>>, Denial}
                     \/ reg' = BPFType(request.type)
  PROVE  ProgramInv(k)'
<1>1. /\ at \in Nat \X Nat /\ Len(prog) \in Nat /\ Len(asked) \in Nat /\ InProgram
      /\ Represents(prog, asked, k)
  BY WhereItIs DEF ProgramInv
<1>2. at'[1] = at[1] + 1 /\ at'[2] = 1 /\ at[1] + 1 \in 1..Len(prog) /\ at[1] \in 1..Len(prog)
  BY <1>1 DEF InProgram
<1>3. Len(prog[at[1] + 1]) \in Nat \ {0}
  <2>1. StandsFor(prog, asked, k, at[1] + 1) /\ k[at[1] + 1] \in 0..Len(asked)
    BY <1>1, <1>2 DEF Represents
  <2>2. k[at[1] + 1] > 0 => asked[k[at[1] + 1]] \in RuleType
    <3>1. k[at[1] + 1] > 0 => k[at[1] + 1] \in 1..Len(asked)
      BY <1>1, <2>1
    <3>. QED BY <3>1, RuleTypes DEF FilterInv, FilterTypeOK
  <2>3. CASE k[at[1] + 1] > 0 /\ prog[at[1] + 1] = Block(asked[k[at[1] + 1]])
    <3>1. ASSUME NEW r \in RuleType PROVE Len(Block(r)) \in Nat \ {0}
      BY BlockEnds
    <3>. QED BY <2>2, <2>3, <3>1
  <2>4. CASE prog[at[1] + 1] \in {<<Load>>, Denial}
    <3>1. Len(prog[at[1] + 1]) = 1
      BY <2>4, ShortBlocks
    <3>. QED BY <3>1
  <2>. QED BY <2>1, <2>3, <2>4 DEF StandsFor
<1>4. InProgram'
  BY <1>2, <1>3 DEF InProgram, Given
<1>5. ASSUME ~partial PROVE SoFar(k)'
  <2>1. SoFar(k)
    BY <1>5 DEF ProgramInv
  <2>2. k[at[1]] \in 0..Len(asked) /\ k[at[1] + 1] \in 0..Len(asked)
    BY <1>1, <1>2 DEF Represents
  <2>3. ASSUME NEW i \in (k[at[1] + 1] + 1)..Len(asked) PROVE ~Matches(asked[i])
    <3>1. i \in (k[at[1]] + 1)..Len(asked) \/ (k[at[1] + 1] = k[at[1]] - 1 /\ i = k[at[1]])
      <4>1. ASSUME NEW x \in 0..Len(asked), NEW y \in 0..Len(asked), y = x \/ y = x - 1,
                   NEW z \in (y + 1)..Len(asked)
            PROVE  z \in (x + 1)..Len(asked) \/ (y = x - 1 /\ z = x)
        <5>1. x \in Nat /\ y \in Nat /\ z \in Int /\ y + 1 <= z /\ z <= Len(asked)
          BY <1>1
        <5>. QED BY <1>1, <4>1, <5>1
      <4>2. k[at[1] + 1] = k[at[1]] \/ k[at[1] + 1] = k[at[1]] - 1
        OBVIOUS
      <4>. QED BY <2>2, <4>1, <4>2
    <3>2. CASE i \in (k[at[1]] + 1)..Len(asked)
      BY <2>1, <3>2 DEF SoFar
    <3>3. CASE k[at[1] + 1] = k[at[1]] - 1 /\ i = k[at[1]]
      <4>1. k[at[1] + 1] # k[at[1]]
        BY <2>2, <3>3
      <4>. QED BY <1>5, <3>3, <4>1
    <3>. QED BY <3>1, <3>2, <3>3
  <2>4. \A j \in 1..(1 - 1) : FALSE
    OBVIOUS
  <2>. QED BY <1>5, <2>3, <2>4, SoFarNext
<1>. QED BY <1>4, <1>5 DEF ProgramInv, Given

(* What holds of the step when it holds of the program's part of it.       *)
LEMMA ExecutedInv ==
  ASSUME FilterInv, outcome = "running", UNCHANGED Given, outcome' = outcome,
         at' \in Nat \X Nat, reg' \in SUBSET Bits, NEW k, ProgramInv(k)'
  PROVE  FilterInv'
BY DEF FilterInv, FilterTypeOK, Given, Verdicts

LEMMA NextInstruction ==
  ASSUME FilterInv, outcome = "running", NEW k, ProgramInv(k), NEW op, Instruction.op = op
  PROVE  /\ op = "load" => AtLoad(k)
         /\ op \in {"type", "access", "number"} => AtTest(k)
         /\ op = "return" => AtVerdict(k) \/ AtDenial(k)
<1>1. AtLoad(k) \/ AtTest(k) \/ AtVerdict(k) \/ AtDenial(k)
  BY WhereItIs
<1>2. AtLoad(k) => op = "load"
  BY DEF AtLoad, Load
<1>3. AtTest(k) => op \in {"type", "access", "number"}
  BY DEF AtTest, TestOf, Type, Access, Number
<1>4. AtVerdict(k) \/ AtDenial(k) => op = "return"
  BY DEF AtVerdict, AtDenial, Return
<1>. QED BY <1>1, <1>2, <1>3, <1>4

LEMMA LoadInv == ASSUME FilterInv, ExecLoad PROVE FilterInv'
<1>1. /\ outcome = "running" /\ Instruction.op = "load" /\ outcome' = outcome
      /\ reg' = BPFType(request.type) /\ Advance /\ UNCHANGED Given
  BY DEF ExecLoad, Executing, Given
<1>2. PICK k : ProgramInv(k)
  BY <1>1 DEF FilterInv
<1>3. AtLoad(k) /\ at \in Nat \X Nat
  BY <1>1, <1>2, NextInstruction, WhereItIs
<1>4. at' = <<at[1] + 1, 1>>
  <2>1. Len(<<Load>>) = 1
    OBVIOUS
  <2>. QED BY <1>1, <1>3, <2>1 DEF AtLoad, Advance
<1>5. ProgramInv(k)'
  BY <1>1, <1>2, <1>3, <1>4, NextBlockInv DEF AtLoad
<1>6. at' \in Nat \X Nat /\ reg' \in SUBSET Bits
  BY <1>1, <1>3, <1>4, BitsOf
<1>. QED BY <1>1, <1>5, <1>6, ExecutedInv

(* A test goes on in its block, or past the rule.                          *)
LEMMA TestInv ==
  ASSUME FilterInv, outcome = "running", outcome' = outcome, UNCHANGED Given,
         NEW k, ProgramInv(k), AtTest(k), reg' \in SUBSET Bits,
         \/ Advance /\ (~partial => Passed(Instruction))
         \/ NextBlock /\ (~partial => ~Passed(Instruction)),
         ~partial => \/ reg' = BPFType(request.type)
                     \/ asked[k[at[1]]].access # FullAccess
  PROVE  FilterInv'
<1>1. at \in Nat \X Nat /\ Len(prog) \in Nat /\ InProgram
  BY WhereItIs
<1>2. CASE Advance /\ (~partial => Passed(Instruction))
  <2>1. ProgramInv(k)'
    BY <1>2, AdvanceInv
  <2>2. at' \in Nat \X Nat
    BY <1>1, <1>2 DEF Advance
  <2>. QED BY <2>1, <2>2, ExecutedInv
<1>3. CASE NextBlock /\ (~partial => ~Passed(Instruction))
  <2>1. at' = <<at[1] + 1, 1>> /\ at' \in Nat \X Nat
    BY <1>1, <1>3 DEF NextBlock
  <2>2. ~partial => ~Matches(asked[k[at[1]]])
    <3>1. /\ asked[k[at[1]]] \in RuleType
          /\ at[2] \in 1..(Len(Block(asked[k[at[1]]])) - 1)
          /\ Instruction = Block(asked[k[at[1]]])[at[2]]
      BY DEF AtTest, InBlock, Instruction
    <3>2. request \in RequestType
      BY FilterAssumption DEF FilterInv, FilterTypeOK
    <3>. QED BY <1>3, <3>1, <3>2, PassedIsMatched
  <2>3. ~partial => \/ prog[at[1] + 1] \in {<<Load>>, Denial}
                    \/ reg' = BPFType(request.type)
    <3>1. at[1] \in 1..(Len(prog) - 1) /\ k[at[1] + 1] = k[at[1]] - 1
      BY <1>1 DEF AtTest, InProgram
    <3>. QED BY <3>1 DEF ProgramInv, RegisterReloaded
  <2>4. at[1] < Len(prog) /\ k[at[1] + 1] = k[at[1]] - 1
    BY DEF AtTest
  <2>5. ProgramInv(k)'
    BY <2>1, <2>2, <2>3, <2>4, NextBlockInv
  <2>. QED BY <2>1, <2>5, ExecutedInv
<1>. QED BY <1>2, <1>3

(* R2 holds the type, unless the access was tested before in the block.    *)
LEMMA RegisterHolds ==
  ASSUME NEW k, ProgramInv(k), outcome = "running", AtTest(k), ~partial
  PROVE  \/ reg = BPFType(request.type)
         \/ at[2] > 1 /\ asked[k[at[1]]].access # FullAccess
<1>1. SoFar(k)
  BY DEF ProgramInv
<1>2. prog[at[1]] \notin {<<Load>>, Denial}
  <2>1. prog[at[1]] \in {<<Load>>, Denial} => Len(prog[at[1]]) = 1
    BY ShortBlocks
  <2>2. at[2] \in 1..(Len(prog[at[1]]) - 1)
    BY DEF AtTest
  <2>3. \A j \in 1..(1 - 1) : FALSE
    OBVIOUS
  <2>4. Len(prog[at[1]]) # 1
    BY <2>2, <2>3
  <2>. QED BY <2>1, <2>4
<1>. QED BY <1>1, <1>2 DEF SoFar

LEMMA ExecTypeInv == ASSUME FilterInv, ExecType PROVE FilterInv'
<1>1. /\ outcome = "running" /\ Instruction.op = "type" /\ outcome' = outcome /\ reg' = reg
      /\ IF reg = Instruction.bits THEN Advance ELSE NextBlock
      /\ UNCHANGED Given
  BY DEF ExecType, Executing, Given
<1>2. PICK k : ProgramInv(k)
  BY <1>1 DEF FilterInv
<1>3. AtTest(k)
  BY <1>1, <1>2, NextInstruction
<1>4. at[2] = 1
  BY <1>1, <1>3 DEF AtTest, TestOf, Type, Access, Number
<1>5. ~partial => reg = BPFType(request.type)
  BY <1>1, <1>2, <1>3, <1>4, RegisterHolds
<1>6. ~partial => (Passed(Instruction) <=> reg = Instruction.bits)
  BY <1>1, <1>5 DEF Passed
<1>7. reg \in SUBSET Bits
  BY DEF FilterInv, FilterTypeOK
<1>. QED BY <1>1, <1>2, <1>3, <1>5, <1>6, <1>7, TestInv

LEMMA ExecAccessInv == ASSUME FilterInv, ExecAccess PROVE FilterInv'
<1>1. /\ outcome = "running" /\ Instruction.op = "access" /\ outcome' = outcome
      /\ reg' = BPFAccess(request.access) \cap Instruction.bits
      /\ IF reg' # {} THEN Advance ELSE NextBlock
      /\ UNCHANGED Given
  BY DEF ExecAccess, Executing, Given
<1>2. PICK k : ProgramInv(k)
  BY <1>1 DEF FilterInv
<1>3. AtTest(k)
  BY <1>1, <1>2, NextInstruction
<1>4. asked[k[at[1]]].access # FullAccess
  BY <1>1, <1>3 DEF AtTest, TestOf, Type, Number
<1>5. Passed(Instruction) <=> reg' # {}
  BY <1>1 DEF Passed
<1>6. reg' \in SUBSET Bits
  <2>1. BPFAccess(request.access) \in SUBSET Bits
    BY BitsOf, FilterAssumption DEF FilterInv, FilterTypeOK, RequestType
  <2>. QED BY <1>1, <2>1
<1>. QED BY <1>1, <1>2, <1>3, <1>4, <1>5, <1>6, TestInv

LEMMA ExecNumberInv == ASSUME FilterInv, ExecNumber PROVE FilterInv'
<1>1. /\ outcome = "running" /\ Instruction.op = "number" /\ outcome' = outcome
      /\ reg' = reg
      /\ IF request[Instruction.reg] = Instruction.value THEN Advance ELSE NextBlock
      /\ UNCHANGED Given
  BY DEF ExecNumber, Executing, Given
<1>2. PICK k : ProgramInv(k)
  BY <1>1 DEF FilterInv
<1>3. AtTest(k)
  BY <1>1, <1>2, NextInstruction
<1>4. ~partial => \/ reg' = BPFType(request.type)
                  \/ asked[k[at[1]]].access # FullAccess
  BY <1>1, <1>2, <1>3, RegisterHolds
<1>5. Passed(Instruction) <=> request[Instruction.reg] = Instruction.value
  BY <1>1 DEF Passed
<1>6. reg' \in SUBSET Bits
  BY <1>1 DEF FilterInv, FilterTypeOK
<1>. QED BY <1>1, <1>2, <1>3, <1>4, <1>5, <1>6, TestInv

LEMMA ReturnInv == ASSUME FilterInv, ExecReturn PROVE FilterInv'
<1>1. /\ outcome = "running" /\ Instruction.op = "return"
      /\ outcome' = Instruction.verdict
      /\ UNCHANGED <<at, reg>> /\ UNCHANGED Given
  BY DEF ExecReturn, Executing, Given
<1>2. PICK k : ProgramInv(k)
  BY <1>1 DEF FilterInv
<1>3. AtVerdict(k) \/ AtDenial(k)
  BY <1>1, <1>2, NextInstruction
<1>4. /\ Len(asked) \in Nat /\ asked \in Seq(Rules) /\ request \in RequestType
      /\ ~partial => SoFar(k)
  BY <1>1, <1>2, WhereItIs, FilterAssumption DEF FilterInv, FilterTypeOK, ProgramInv
<1>5. outcome' \in Verdicts
  BY <1>1, <1>3 DEF AtVerdict, AtDenial, Return, Verdict, Verdicts
<1>6. ~partial => outcome' = Decides(asked)
  <2> SUFFICES ASSUME ~partial PROVE outcome' = Decides(asked)
    OBVIOUS
  <2>1. \A i \in (k[at[1]] + 1)..Len(asked) : ~Matches(asked[i])
    BY <1>4 DEF SoFar
  <2>2. CASE AtDenial(k)
    <3>1. k[at[1]] = 0 /\ outcome' = "deny"
      BY <1>1, <2>2 DEF AtDenial, Return
    <3>2. 0 \in 0..Len(asked)
      BY <1>4
    <3>3. \A i \in (0 + 1)..Len(asked) : ~Matches(asked[i])
      BY <2>1, <3>1
    <3>. QED BY <1>4, <3>1, <3>2, <3>3, DecidesAt
  <2>3. CASE AtVerdict(k)
    <3> DEFINE n == k[at[1]]
    <3>1. n \in 1..Len(asked) /\ asked[n] \in RuleType /\ prog[at[1]] = Block(asked[n])
      BY <2>3 DEF AtVerdict, InBlock
    <3>2. outcome' = Verdict(asked[n].allow)
      BY <1>1, <2>3 DEF AtVerdict, Return
    <3>3. Matches(asked[n])
      <4>1. \A j \in 1..(Len(Block(asked[n])) - 1) : Passed(Block(asked[n])[j])
        BY <1>4, <2>3, <3>1 DEF SoFar, AtVerdict
      <4>. QED BY <1>4, <3>1, <4>1, PassedIsMatched
    <3>4. n \in 0..Len(asked) /\ n # 0
      BY <1>4, <3>1
    <3> HIDE DEF n
    <3>5. Decides(asked) = IF n = 0 THEN "deny" ELSE Verdict(asked[n].allow)
      <4>1. \A i \in (n + 1)..Len(asked) : ~Matches(asked[i])
        BY <2>1 DEF n
      <4>. QED BY <1>4, <3>3, <3>4, <4>1, DecidesAt
    <3>. QED BY <3>2, <3>4, <3>5
  <2>. QED BY <1>3, <2>2, <2>3
<1>7. ~partial' => outcome' = Decides(asked)'
  BY <1>1, <1>6, SameDecision DEF Given
<1>8. /\ prog # <<>> /\ outcome' \notin {"idle", "running", "refused"}
      /\ prog' = prog /\ asked' = asked /\ partial' = partial
  BY <1>1, <1>5 DEF FilterInv, Given, Verdicts
<1>9. ProgramInv(k)'
  BY <1>2, <1>8 DEF ProgramInv
<1>10. FilterTypeOK'
  BY <1>1, <1>5 DEF FilterInv, FilterTypeOK, Given
<1>11. prog' \in Seq(Blocks)
  BY <1>8 DEF FilterInv
<1>. QED BY <1>7, <1>8, <1>9, <1>10, <1>11 DEF FilterInv

LEMMA FilterStepInv == FilterInv /\ [Next]_vars => FilterInv'
<1> SUFFICES ASSUME FilterInv, [Next]_vars PROVE FilterInv'
  OBVIOUS
<1>1. ASSUME NEW list \in RuleLists(MaxRules), GenerateNewProgram(list) PROVE FilterInv'
  BY <1>1, GenerateInv
<1>2. ASSUME NEW access \in Requests, Try(access) PROVE FilterInv'
  BY <1>2, TryInv
<1>3. CASE ExecLoad
  BY <1>3, LoadInv
<1>4. CASE ExecType
  BY <1>4, ExecTypeInv
<1>5. CASE ExecAccess
  BY <1>5, ExecAccessInv
<1>6. CASE ExecNumber
  BY <1>6, ExecNumberInv
<1>7. CASE ExecReturn
  BY <1>7, ReturnInv
<1>8. CASE UNCHANGED vars
  <2>1. /\ UNCHANGED <<prog, request, at, reg, outcome, calls, asked, partial>>
        /\ UNCHANGED Given
    BY <1>8 DEF vars, Given
  <2>2. Decides(asked)' = Decides(asked)
    BY <2>1, SameDecision
  <2>3. ASSUME NEW k, ProgramInv(k) PROVE ProgramInv(k)'
    BY <2>1, <2>3 DEF ProgramInv, InProgram, SoFar, Matches, Passed
  <2>4. FilterTypeOK'
    BY <2>1 DEF FilterInv, FilterTypeOK
  <2>. QED BY <2>1, <2>2, <2>3, <2>4 DEF FilterInv
<1>. QED BY <1>1, <1>2, <1>3, <1>4, <1>5, <1>6, <1>7, <1>8 DEF Next

LEMMA FilterInvariant == Spec => []FilterInv
BY FilterInitInv, FilterStepInv, PTL DEF Spec

------------------------------------------------------------------------------
(* The type invariant: in particular no run of a program leaves it.        *)
THEOREM FilterTypeCorrect == Spec => []FilterTypeOK
<1>1. FilterInv => FilterTypeOK
  BY DEF FilterInv
<1>. QED BY FilterInvariant, <1>1, PTL

(* The program that is generated, prepended, loaded and run instruction by *)
(* instruction decides every access as the last matching rule of all calls *)
(* and of runc does, whatever the rules and the devices                    *)
(* (ebpf.go:81-187, 259-270).                                              *)
THEOREM FilterDecidesAsRules == Spec => []FilterDecides
<1>1. FilterInv => FilterDecides
  BY DEF FilterInv, FilterDecides
<1>. QED BY FilterInvariant, <1>1, PTL

(* In front of a program that is attached, only a rule for every device    *)
(* makes the verifier refuse what AddDeviceRules generates.                *)
THEOREM OnlyWildcardRefused == Spec => []PrependedIsLoaded
<1>1. FilterInv => PrependedIsLoaded
  BY DEF FilterInv, PrependedIsLoaded
<1>. QED BY FilterInvariant, <1>1, PTL
==============================================================================
