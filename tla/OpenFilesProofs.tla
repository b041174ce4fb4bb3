---------------------------- MODULE OpenFilesProofs ----------------------------
(***************************************************************************)
(* OpenFiles for every number of files, elements and CPUs: what no race of *)
(* two CPUs on the seen bits can do to a file that the LRU left alone.     *)
(*                                                                         *)
(* The argument: the bits an access has loaded, and those in the element,  *)
(* are always between what was preset and what is accounted for.  A store  *)
(* writes back bits loaded earlier, and may take a bit of another CPU away *)
(* (that is how a verb is logged twice), but never below the preset ones.  *)
(***************************************************************************)
EXTENDS OpenFiles, TLAPS

\* Verbs of the file's open that were dropped, covered or logged.
Accounted(f) == preset[f] \cup covered[f] \cup {v \in Bits : count[f][v] > 0}

\* The element of a file: what is preset is seen, what is seen is accounted for.
ElemOK ==
    \A f \in Files, s \in Slots : Kept(f) /\ elem[s].key = f =>
        preset[f] \subseteq elem[s].seen /\ elem[s].seen \subseteq Accounted(f)

\* An access under way: it is one of an open file, of a verb not seen; its element is still the
\* file's, and no other file's that was left alone.
OpOK ==
    \A c \in Cpus : op[c] # NoOp =>
        /\ opened[op[c].file] = "parked"
        /\ op[c].access.bit \notin op[c].saw
        /\ op[c].file \notin spoiled =>
              /\ elem[op[c].slot].key = op[c].file
              /\ preset[op[c].file] \subseteq op[c].saw
              /\ op[c].saw \subseteq Accounted(op[c].file)
        /\ \A f \in Files : Kept(f) /\ elem[op[c].slot].key = f => op[c].file = f

\* Nothing is remembered of an open that is over.
ClosedClean ==
    \A f \in Files : opened[f] = "closed" =>
        done[f] = {} /\ covered[f] = {} /\ \A v \in Bits : count[f][v] = 0

IInv ==
    /\ TypeOK /\ EntryOfThisOpen /\ ElemOK /\ OpOK /\ ClosedClean
    /\ NoSilentVerb /\ PresetNeverLogged

LEMMA InitIInv == Init => IInv
  <1> SUFFICES ASSUME Init PROVE IInv
    OBVIOUS
  <1>1. TypeOK
    BY NoFileAssumption, MaxLogAssumption DEF Init, TypeOK, Unused, Bits
  <1>2. EntryOfThisOpen /\ ElemOK /\ OpOK
    BY NoFileAssumption DEF Init, EntryOfThisOpen, ElemOK, OpOK, Unused, Kept
  <1>3. ClosedClean /\ NoSilentVerb /\ PresetNeverLogged
    BY DEF Init, ClosedClean, NoSilentVerb, PresetNeverLogged, Kept
  <1> QED  BY <1>1, <1>2, <1>3 DEF IInv

LEMMA OpenParkIInv ==
    ASSUME IInv, NEW f \in Files, NEW quiet \in Quiet, NEW created \in BOOLEAN,
           OpenPark(f, quiet, created)
    PROVE  IInv'
  <1> PICK bits : bits = IF created /\ "W" \notin quiet THEN Bits ELSE quiet
    OBVIOUS
  <1>0. bits \subseteq Bits
    BY DEF Quiet, Bits
  <1>1. PICK s \in Target(f) :
          /\ elem' = [elem EXCEPT ![s] = [key |-> f, seen |-> bits]]
          /\ spoiled' = spoiled \cup ({elem[s].key} \ {NoFile, f})
                                \cup (IF Held(s) THEN {f} ELSE {})
    BY DEF OpenPark
  <1>2. /\ opened[f] = "closed"
        /\ opened' = [opened EXCEPT ![f] = "parked"]
        /\ preset' = [preset EXCEPT ![f] = bits]
        /\ UNCHANGED <<op, count, covered, done>>
    BY DEF OpenPark
  <1>3. TypeOK /\ EntryOfThisOpen
    BY DEF IInv
  <1>4. s \in Slots /\ \A t \in Slots : elem[t].key # f
    BY <1>2, <1>3, NoFileAssumption DEF TypeOK, EntryOfThisOpen, Target, SlotsOf
  <1>5. elem[s].key \in Files \cup {NoFile} /\ elem \in [Slots -> [key : Files \cup {NoFile}, seen : SUBSET Bits]]
    BY <1>3, <1>4 DEF TypeOK
  <1>6. /\ elem'[s].key = f /\ elem'[s].seen = bits
        /\ \A t \in Slots : t # s => elem'[t] = elem[t]
    BY <1>1, <1>4, <1>5
  <1>7. TypeOK'
    <2>1. elem' \in [Slots -> [key : Files \cup {NoFile}, seen : SUBSET Bits]]
      BY <1>0, <1>1, <1>4, <1>5
    <2>2. \A t, u \in Slots : elem'[t].key = elem'[u].key /\ elem'[t].key # NoFile => t = u
      BY <1>3, <1>4, <1>6 DEF TypeOK
    <2>3. preset' \in [Files -> SUBSET Bits] /\ spoiled' \subseteq Files
          /\ opened' \in [Files -> {"closed", "parked", "plain"}]
      BY <1>0, <1>1, <1>2, <1>3, <1>5 DEF TypeOK
    <2> QED  BY <1>2, <1>3, <2>1, <2>2, <2>3 DEF TypeOK
  <1>8. EntryOfThisOpen'
    BY <1>2, <1>3, <1>6 DEF EntryOfThisOpen, TypeOK
  \* Files that are left alone but this one had their open, element and history before.
  <1>9. ASSUME NEW g \in Files, Kept(g)', g # f
        PROVE  /\ Kept(g) /\ preset'[g] = preset[g] /\ Accounted(g)' = Accounted(g)
               /\ elem[s].key # g
    BY <1>1, <1>2, <1>3, <1>5, <1>9, NoFileAssumption DEF Kept, TypeOK, Accounted
  <1>10. preset'[f] = bits /\ bits \subseteq Accounted(f)' /\ count'[f] = count[f]
    BY <1>2, <1>3 DEF TypeOK, Accounted
  <1>11. ElemOK'
    <2> SUFFICES ASSUME NEW g \in Files, NEW t \in Slots, Kept(g)', elem'[t].key = g
                 PROVE  preset'[g] \subseteq elem'[t].seen /\ elem'[t].seen \subseteq Accounted(g)'
      BY DEF ElemOK
    <2>1. CASE g = f
      <3>1. t = s
        BY <1>4, <1>6, <2>1
      <3> QED  BY <1>6, <1>10, <2>1, <3>1
    <2>2. CASE g # f
      <3>1. t # s
        BY <1>6, <2>2
      <3> QED  BY <1>6, <1>9, <2>2, <3>1 DEF IInv, ElemOK
    <2> QED  BY <2>1, <2>2
  <1>12. OpOK'
    <2> SUFFICES ASSUME NEW c \in Cpus, op[c] # NoOp
                 PROVE  /\ opened'[op[c].file] = "parked"
                        /\ op[c].access.bit \notin op[c].saw
                        /\ op[c].file \notin spoiled' =>
                              /\ elem'[op[c].slot].key = op[c].file
                              /\ preset'[op[c].file] \subseteq op[c].saw
                              /\ op[c].saw \subseteq Accounted(op[c].file)'
                        /\ \A g \in Files : Kept(g)' /\ elem'[op[c].slot].key = g => op[c].file = g
      BY <1>2 DEF OpOK
    <2>1. op[c] \in Op /\ op[c].file \in Files /\ op[c].slot \in Slots
      BY <1>3 DEF TypeOK, Op
    <2>2. /\ opened[op[c].file] = "parked" /\ op[c].access.bit \notin op[c].saw
          /\ op[c].file # f
      BY <1>2 DEF IInv, OpOK
    <2>3. opened'[op[c].file] = "parked"
      BY <1>2, <1>3, <2>1, <2>2 DEF TypeOK
    <2>4. ASSUME op[c].file \notin spoiled'
          PROVE  /\ elem'[op[c].slot].key = op[c].file
                 /\ preset'[op[c].file] \subseteq op[c].saw
                 /\ op[c].saw \subseteq Accounted(op[c].file)'
      <3>1. Kept(op[c].file)'
        BY <1>2, <2>3, <2>4 DEF Kept
      <3>2. /\ Kept(op[c].file) /\ elem[s].key # op[c].file
            /\ preset'[op[c].file] = preset[op[c].file]
            /\ Accounted(op[c].file)' = Accounted(op[c].file)
        BY <1>2, <1>9, <2>1, <2>2, <3>1
      <3>3. /\ elem[op[c].slot].key = op[c].file
            /\ preset[op[c].file] \subseteq op[c].saw
            /\ op[c].saw \subseteq Accounted(op[c].file)
        BY <3>2 DEF IInv, OpOK, Kept
      <3>4. op[c].slot # s
        BY <3>2, <3>3
      <3> QED  BY <1>6, <2>1, <3>2, <3>3, <3>4
    <2>5. ASSUME NEW g \in Files, Kept(g)', elem'[op[c].slot].key = g PROVE op[c].file = g
      <3>1. CASE op[c].slot = s
        <4>1. Held(s)
          BY <3>1 DEF Held
        <4> QED  BY <1>1, <1>6, <2>5, <3>1, <4>1 DEF Kept
      <3>2. CASE op[c].slot # s
        <4>1. elem[op[c].slot].key = g /\ g # f
          BY <1>4, <1>6, <2>1, <2>5, <3>2
        <4> QED  BY <1>9, <2>5, <4>1 DEF IInv, OpOK
      <3> QED  BY <3>1, <3>2
    <2> QED  BY <2>2, <2>3, <2>4, <2>5
  <1>13. ClosedClean'
    BY <1>2, <1>3 DEF IInv, ClosedClean, TypeOK
  <1>14. done[f] = {} /\ \A v \in Bits : count[f][v] = 0
    BY <1>2 DEF IInv, ClosedClean
  <1>15. NoSilentVerb'
    <2> SUFFICES ASSUME NEW g \in Files, Kept(g)' PROVE done'[g] \subseteq Accounted(g)'
      BY DEF NoSilentVerb, Accounted
    <2>1. CASE g = f
      BY <1>2, <1>14, <2>1
    <2>2. CASE g # f
      BY <1>2, <1>9, <2>2 DEF IInv, NoSilentVerb, Accounted
    <2> QED  BY <2>1, <2>2
  <1>16. PresetNeverLogged'
    <2> SUFFICES ASSUME NEW g \in Files, Kept(g)', NEW v \in preset'[g] PROVE count'[g][v] = 0
      BY DEF PresetNeverLogged
    <2>1. CASE g = f
      BY <1>0, <1>2, <1>10, <1>14, <2>1
    <2>2. CASE g # f
      BY <1>2, <1>9, <2>2 DEF IInv, PresetNeverLogged
    <2> QED  BY <2>1, <2>2
  <1> QED  BY <1>7, <1>8, <1>11, <1>12, <1>13, <1>15, <1>16 DEF IInv

LEMMA OpenPlainIInv == ASSUME IInv, NEW f \in Files, OpenPlain(f) PROVE IInv'
  <1>1. /\ opened[f] = "closed" /\ opened' = [opened EXCEPT ![f] = "plain"]
        /\ UNCHANGED <<elem, op, preset, count, covered, done, spoiled>>
    BY DEF OpenPlain, histVars
  <1>2. TypeOK /\ EntryOfThisOpen
    BY DEF IInv
  <1>3. \A g \in Files : Kept(g)' <=> Kept(g)
    BY <1>1, <1>2 DEF Kept, TypeOK
  <1>4. \A g \in Files : Accounted(g)' = Accounted(g)
    BY <1>1 DEF Accounted
  <1>5. TypeOK'
    BY <1>1, <1>2 DEF TypeOK
  <1>6. EntryOfThisOpen'
    BY <1>1, <1>2 DEF EntryOfThisOpen, TypeOK
  <1>7. ElemOK'
    BY <1>1, <1>3, <1>4 DEF IInv, ElemOK
  <1>8. OpOK'
    <2> SUFFICES ASSUME NEW c \in Cpus, op[c] # NoOp
                 PROVE  /\ opened'[op[c].file] = "parked"
                        /\ op[c].access.bit \notin op[c].saw
                        /\ op[c].file \notin spoiled =>
                              /\ elem[op[c].slot].key = op[c].file
                              /\ preset[op[c].file] \subseteq op[c].saw
                              /\ op[c].saw \subseteq Accounted(op[c].file)'
                        /\ \A g \in Files : Kept(g)' /\ elem[op[c].slot].key = g => op[c].file = g
      BY <1>1 DEF OpOK
    <2>1. op[c].file \in Files
      BY <1>2 DEF TypeOK, Op
    <2>2. opened[op[c].file] = "parked"
      BY DEF IInv, OpOK
    <2>3. opened'[op[c].file] = "parked"
      BY <1>1, <1>2, <2>1, <2>2 DEF TypeOK
    <2>4. Accounted(op[c].file)' = Accounted(op[c].file)
      BY <1>1 DEF Accounted
    <2> QED  BY <1>3, <2>1, <2>3, <2>4 DEF IInv, OpOK
  <1>9. ClosedClean' /\ NoSilentVerb' /\ PresetNeverLogged'
    BY <1>1, <1>2, <1>3 DEF IInv, ClosedClean, NoSilentVerb, PresetNeverLogged, TypeOK
  <1> QED  BY <1>5, <1>6, <1>7, <1>8, <1>9 DEF IInv

LEMMA AccessLoadIInv ==
    ASSUME IInv, NEW c \in Cpus, NEW f \in Files, NEW a \in Accesses, AccessLoad(c, f, a)
    PROVE  IInv'
  <1>1. /\ op[c] = NoOp /\ opened[f] # "closed"
        /\ UNCHANGED <<opened, elem, preset, count, covered, spoiled>>
    BY DEF AccessLoad
  <1>2. TypeOK /\ EntryOfThisOpen
    BY DEF IInv
  <1>3. \A g \in Files : Kept(g)' = Kept(g) /\ Accounted(g)' = Accounted(g)
    BY <1>1 DEF Kept, Accounted
  <1>4. a.bit \in Bits
    BY DEF Accesses, Bits
  <1>5. /\ elem' = elem /\ EntryOfThisOpen' /\ PresetNeverLogged' /\ ElemOK'
    BY <1>1, <1>3 DEF IInv, EntryOfThisOpen, PresetNeverLogged, ElemOK
  <1>6. CASE \E s \in SlotsOf(f) : a.bit \in elem[s].seen /\ done' = [done EXCEPT ![f] = @ \cup {a.bit}]
             /\ UNCHANGED op
    <2> PICK s \in SlotsOf(f) : a.bit \in elem[s].seen
      BY <1>6
    <2>1. done' = [done EXCEPT ![f] = @ \cup {a.bit}] /\ op' = op
      BY <1>6
    <2>2. s \in Slots /\ elem[s].key = f
      BY DEF SlotsOf
    <2>3. TypeOK'
      BY <1>1, <1>2, <1>4, <2>1 DEF TypeOK
    <2>4. OpOK'
      BY <1>1, <1>3, <2>1 DEF IInv, OpOK, Accounted
    <2>5. ClosedClean'
      BY <1>1, <1>2, <2>1 DEF IInv, ClosedClean, TypeOK
    <2>6. NoSilentVerb'
      <3> SUFFICES ASSUME NEW g \in Files, Kept(g) PROVE done'[g] \subseteq Accounted(g)
        BY <1>3 DEF NoSilentVerb, Accounted
      <3>1. done[g] \subseteq Accounted(g)
        BY DEF IInv, NoSilentVerb, Accounted
      <3>2. g = f => a.bit \in Accounted(g)
        BY <2>2 DEF IInv, ElemOK
      <3> QED  BY <1>2, <2>1, <3>1, <3>2 DEF TypeOK
    <2> QED  BY <1>5, <2>3, <2>4, <2>5, <2>6 DEF IInv
  <1>7. CASE \E s \in SlotsOf(f) : a.bit \notin elem[s].seen /\ UNCHANGED done
             /\ op' = [op EXCEPT ![c] = [file |-> f, slot |-> s, saw |-> elem[s].seen, access |-> a]]
    <2> PICK s \in SlotsOf(f) :
               /\ a.bit \notin elem[s].seen
               /\ op' = [op EXCEPT ![c] = [file |-> f, slot |-> s, saw |-> elem[s].seen, access |-> a]]
      BY <1>7
    <2> PICK o : o = [file |-> f, slot |-> s, saw |-> elem[s].seen, access |-> a]
      OBVIOUS
    <2>1. done' = done
      BY <1>7
    <2>2. s \in Slots /\ elem[s].key = f /\ f # NoFile
      BY NoFileAssumption DEF SlotsOf
    <2>3. o \in Op
      BY <1>2, <2>2 DEF TypeOK, Op
    <2>4. op'[c] = o /\ \A d \in Cpus : d # c => op'[d] = op[d]
      BY <1>2 DEF TypeOK
    <2>5. TypeOK'
      BY <1>1, <1>2, <2>1, <2>3 DEF TypeOK
    <2>6. opened[f] = "parked"
      BY <1>2, <2>2 DEF EntryOfThisOpen
    <2>7. f \notin spoiled => preset[f] \subseteq elem[s].seen /\ elem[s].seen \subseteq Accounted(f)
      BY <2>2, <2>6 DEF IInv, ElemOK, Kept
    <2>8. OpOK'
      <3> SUFFICES ASSUME NEW d \in Cpus, op'[d] # NoOp
                   PROVE  /\ opened[op'[d].file] = "parked"
                          /\ op'[d].access.bit \notin op'[d].saw
                          /\ op'[d].file \notin spoiled =>
                                /\ elem[op'[d].slot].key = op'[d].file
                                /\ preset[op'[d].file] \subseteq op'[d].saw
                                /\ op'[d].saw \subseteq Accounted(op'[d].file)
                          /\ \A g \in Files : Kept(g) /\ elem[op'[d].slot].key = g => op'[d].file = g
        BY <1>1, <1>3 DEF OpOK, Accounted
      <3>1. CASE d = c
        BY <2>2, <2>4, <2>6, <2>7, <3>1
      <3>2. CASE d # c
        BY <2>4, <3>2 DEF IInv, OpOK
      <3> QED  BY <3>1, <3>2
    <2>9. ClosedClean' /\ NoSilentVerb'
      BY <1>1, <1>3, <2>1 DEF IInv, ClosedClean, NoSilentVerb
    <2> QED  BY <1>5, <2>5, <2>8, <2>9 DEF IInv
  <1>8. CASE UNCHANGED <<op, done>>
    <2>1. TypeOK'
      BY <1>1, <1>2, <1>8 DEF TypeOK
    <2>2. OpOK' /\ ClosedClean' /\ NoSilentVerb'
      BY <1>1, <1>3, <1>8 DEF IInv, OpOK, ClosedClean, NoSilentVerb, Accounted
    <2> QED  BY <1>5, <2>1, <2>2 DEF IInv
  <1> QED  BY <1>6, <1>7, <1>8 DEF AccessLoad

\* A count up to a bound.
LEMMA Capped ==
    ASSUME NEW m \in Nat, m > 0, NEW k \in 0 .. m, NEW n, n = IF k < m THEN k + 1 ELSE k
    PROVE  n \in 0 .. m /\ n > 0
  OBVIOUS

LEMMA AccessStoreIInv == ASSUME IInv, NEW c \in Cpus, AccessStore(c) PROVE IInv'
  <1> PICK o : o = op[c]
    OBVIOUS
  <1> PICK bit : bit = o.access.bit
    OBVIOUS
  <1> PICK cov : cov = o.access.covers
    OBVIOUS
  <1> PICK own : own = IF elem[o.slot].key = NoFile THEN o.file ELSE elem[o.slot].key
    OBVIOUS
  <1> PICK n : n = IF count[own][bit] < MaxLog THEN count[own][bit] + 1 ELSE count[own][bit]
    OBVIOUS
  <1>1. /\ o # NoOp
        /\ elem' = [elem EXCEPT ![o.slot].seen = o.saw \cup {bit} \cup cov]
        /\ count' = [count EXCEPT ![own][bit] = n]
        /\ covered' = [covered EXCEPT ![own] = @ \cup cov]
        /\ done' = [done EXCEPT ![o.file] = @ \cup {bit}]
        /\ op' = [op EXCEPT ![c] = NoOp]
        /\ UNCHANGED <<opened, preset, spoiled>>
    BY DEF AccessStore
  <1>2. TypeOK /\ EntryOfThisOpen
    BY DEF IInv
  <1>3. /\ o.file \in Files /\ o.slot \in Slots /\ o.saw \subseteq Bits
        /\ bit \in Bits /\ cov \subseteq Bits
    <2>1. o \in Op
      BY <1>1, <1>2 DEF TypeOK
    <2>2. o.file \in Files /\ o.slot \in Slots /\ o.saw \subseteq Bits /\ o.access \in Accesses
      BY <2>1 DEF Op
    <2>3. \A a \in Accesses : a.bit \in Bits /\ a.covers \subseteq Bits
      BY DEF Accesses, Bits
    <2> QED  BY <2>2, <2>3
  <1>4. own \in Files /\ elem \in [Slots -> [key : Files \cup {NoFile}, seen : SUBSET Bits]]
    BY <1>2, <1>3 DEF TypeOK
  <1>5. n \in 0 .. MaxLog /\ n > 0
    <2> PICK k : k = count[own][bit]
      OBVIOUS
    <2>0. count \in [Files -> [Bits -> 0 .. MaxLog]]
      BY <1>2 DEF TypeOK
    <2>1. k \in 0 .. MaxLog
      BY <1>3, <1>4, <2>0
    <2>2. n = IF k < MaxLog THEN k + 1 ELSE k
      OBVIOUS
    <2>3. MaxLog \in Nat /\ MaxLog > 0
      BY MaxLogAssumption
    <2> QED  BY <2>1, <2>2, <2>3, Capped
  <1>6. /\ elem'[o.slot].key = elem[o.slot].key /\ elem'[o.slot].seen = o.saw \cup {bit} \cup cov
        /\ \A t \in Slots : t # o.slot => elem'[t] = elem[t]
        /\ \A t \in Slots : elem'[t].key = elem[t].key
    BY <1>1, <1>3, <1>4
  <1>7. /\ count'[own][bit] = n
        /\ \A g \in Files, v \in Bits : g # own \/ v # bit => count'[g][v] = count[g][v]
        /\ covered'[own] = covered[own] \cup cov
        /\ \A g \in Files : g # own => covered'[g] = covered[g]
        /\ done'[o.file] = done[o.file] \cup {bit}
        /\ \A g \in Files : g # o.file => done'[g] = done[g]
    BY <1>1, <1>2, <1>3, <1>4 DEF TypeOK
  <1>8. TypeOK'
    <2>1. elem' \in [Slots -> [key : Files \cup {NoFile}, seen : SUBSET Bits]]
      <3>1. \A t \in Slots : elem'[t].key \in Files \cup {NoFile} /\ elem'[t].seen \subseteq Bits
        BY <1>3, <1>4, <1>6
      <3> PICK r : r = o.saw \cup {bit} \cup cov
        OBVIOUS
      <3>2. r \in SUBSET Bits
        BY <1>3
      <3>3. elem' = [elem EXCEPT ![o.slot].seen = r]
        BY <1>1
      <3> QED  BY <1>3, <1>4, <3>2, <3>3
    <2>2. count' \in [Files -> [Bits -> 0 .. MaxLog]]
      BY <1>1, <1>2, <1>3, <1>4, <1>5 DEF TypeOK
    <2>3. /\ covered' \in [Files -> SUBSET Bits] /\ done' \in [Files -> SUBSET Bits]
          /\ op' \in [Cpus -> Op \cup {NoOp}]
      <3>0. covered \in [Files -> SUBSET Bits]
        BY <1>2 DEF TypeOK
      <3>1. covered' \in [Files -> SUBSET Bits]
        BY <1>1, <1>3, <1>4, <3>0
      <3>2. done' \in [Files -> SUBSET Bits]
        BY <1>1, <1>2, <1>3 DEF TypeOK
      <3>3. op' \in [Cpus -> Op \cup {NoOp}]
        BY <1>1, <1>2 DEF TypeOK
      <3> QED  BY <3>1, <3>2, <3>3
    <2>4. \A t, u \in Slots : elem'[t].key = elem'[u].key /\ elem'[t].key # NoFile => t = u
      BY <1>2, <1>6 DEF TypeOK
    <2> QED  BY <1>1, <1>2, <2>1, <2>2, <2>3, <2>4 DEF TypeOK
  <1>9. /\ opened[o.file] = "parked" /\ bit \notin o.saw
        /\ o.file \notin spoiled =>
              /\ elem[o.slot].key = o.file
              /\ preset[o.file] \subseteq o.saw
              /\ o.saw \subseteq Accounted(o.file)
        /\ \A f \in Files : Kept(f) /\ elem[o.slot].key = f => o.file = f
    BY <1>1 DEF IInv, OpOK
  <1>10. opened[own] = "parked"
    BY <1>2, <1>3, <1>9 DEF EntryOfThisOpen
  \* What is accounted for stays so; the verb and what it covers now are.
  <1>11. \A g \in Files : Accounted(g) \subseteq Accounted(g)' /\ Kept(g)' = Kept(g)
    <2> TAKE g \in Files
    <2>1. preset'[g] = preset[g] /\ covered[g] \subseteq covered'[g] /\ Kept(g)' = Kept(g)
      BY <1>1, <1>7 DEF Kept
    <2>2. ASSUME NEW v \in Bits, count[g][v] > 0 PROVE count'[g][v] > 0
      BY <1>5, <1>7, <2>2
    <2> QED  BY <2>1, <2>2 DEF Accounted
  <1>12. {bit} \cup cov \subseteq Accounted(own)'
    <2>1. cov \subseteq covered'[own]
      BY <1>7
    <2>2. bit \in {v \in Bits : count'[own][v] > 0}
      BY <1>3, <1>5, <1>7
    <2> QED  BY <2>1, <2>2 DEF Accounted
  <1>13. Kept(own) => own = o.file /\ elem[o.slot].key = own
    <2>1. CASE elem[o.slot].key = NoFile
      BY <1>3, <1>9, <2>1, NoFileAssumption DEF Kept
    <2>2. CASE elem[o.slot].key # NoFile
      BY <1>4, <1>9, <2>2
    <2> QED  BY <2>1, <2>2
  <1>14. Kept(o.file) => own = o.file
    BY <1>3, <1>9, NoFileAssumption DEF Kept
  <1>15. EntryOfThisOpen'
    BY <1>1, <1>2, <1>6 DEF EntryOfThisOpen
  <1>16. ElemOK'
    <2> SUFFICES ASSUME NEW g \in Files, NEW t \in Slots, Kept(g), elem[t].key = g
                 PROVE  preset[g] \subseteq elem'[t].seen /\ elem'[t].seen \subseteq Accounted(g)'
      BY <1>1, <1>6, <1>11 DEF ElemOK
    <2>1. preset[g] \subseteq elem[t].seen /\ elem[t].seen \subseteq Accounted(g)
      BY DEF IInv, ElemOK
    <2>2. CASE t = o.slot
      <3>1. o.file = g /\ own = g /\ g \notin spoiled
        BY <1>9, <1>14, <2>2 DEF Kept
      <3> QED  BY <1>6, <1>9, <1>11, <1>12, <2>2, <3>1
    <2>3. CASE t # o.slot
      BY <1>6, <1>11, <2>1, <2>3
    <2> QED  BY <2>2, <2>3
  <1>17. OpOK'
    <2> SUFFICES ASSUME NEW d \in Cpus, NEW q, q = op'[d], q # NoOp
                 PROVE  /\ opened'[q.file] = "parked"
                        /\ q.access.bit \notin q.saw
                        /\ q.file \notin spoiled' =>
                              /\ elem'[q.slot].key = q.file
                              /\ preset'[q.file] \subseteq q.saw
                              /\ q.saw \subseteq Accounted(q.file)'
                        /\ \A g \in Files : Kept(g)' /\ elem'[q.slot].key = g => q.file = g
      BY DEF OpOK, Accounted
    <2>1. d # c /\ q = op[d]
      BY <1>1, <1>2 DEF TypeOK
    <2>2. q.file \in Files /\ q.slot \in Slots
      BY <1>2, <2>1 DEF TypeOK, Op
    <2>3. /\ opened[q.file] = "parked"
          /\ q.access.bit \notin q.saw
          /\ q.file \notin spoiled =>
                /\ elem[q.slot].key = q.file
                /\ preset[q.file] \subseteq q.saw
                /\ q.saw \subseteq Accounted(q.file)
          /\ \A g \in Files : Kept(g) /\ elem[q.slot].key = g => q.file = g
      BY <2>1 DEF IInv, OpOK
    <2>4. Accounted(q.file) \subseteq Accounted(q.file)' /\ elem'[q.slot].key = elem[q.slot].key
      BY <1>6, <1>11, <2>2
    <2> QED  BY <1>1, <1>11, <2>3, <2>4
  <1>18. ClosedClean'
    <2> SUFFICES ASSUME NEW g \in Files, opened[g] = "closed"
                 PROVE  done'[g] = {} /\ covered'[g] = {} /\ \A v \in Bits : count'[g][v] = 0
      BY <1>1 DEF ClosedClean
    <2>1. g # own /\ g # o.file
      BY <1>9, <1>10
    <2>2. done[g] = {} /\ covered[g] = {} /\ \A v \in Bits : count[g][v] = 0
      BY DEF IInv, ClosedClean
    <2> QED  BY <1>7, <2>1, <2>2
  <1>19. NoSilentVerb'
    <2> SUFFICES ASSUME NEW g \in Files, Kept(g) PROVE done'[g] \subseteq Accounted(g)'
      BY <1>11 DEF NoSilentVerb, Accounted
    <2>1. done[g] \subseteq Accounted(g)
      BY DEF IInv, NoSilentVerb, Accounted
    <2> QED  BY <1>7, <1>11, <1>12, <1>14, <2>1
  <1>20. PresetNeverLogged'
    <2> SUFFICES ASSUME NEW g \in Files, Kept(g), NEW v \in preset[g] PROVE count'[g][v] = 0
      BY <1>1, <1>11 DEF PresetNeverLogged
    <2>1. count[g][v] = 0 /\ v \in Bits
      BY <1>2 DEF IInv, PresetNeverLogged, TypeOK
    <2>2. g = own => v # bit
      BY <1>9, <1>13 DEF Kept
    <2> QED  BY <1>7, <2>1, <2>2
  <1> QED  BY <1>8, <1>15, <1>16, <1>17, <1>18, <1>19, <1>20 DEF IInv

LEMMA FileFreeIInv == ASSUME IInv, NEW f \in Files, FileFree(f) PROVE IInv'
  <1>1. /\ \A c \in Cpus : op[c] # NoOp => op[c].file # f
        /\ opened' = [opened EXCEPT ![f] = "closed"]
        /\ elem' = [s \in Slots |-> IF elem[s].key = f THEN Unused ELSE elem[s]]
        /\ preset' = [preset EXCEPT ![f] = {}]
        /\ count' = [count EXCEPT ![f] = [v \in Bits |-> 0]]
        /\ covered' = [covered EXCEPT ![f] = {}]
        /\ done' = [done EXCEPT ![f] = {}]
        /\ spoiled' = spoiled \ {f}
        /\ op' = op
    BY DEF FileFree
  <1>2. TypeOK /\ EntryOfThisOpen
    BY DEF IInv
  <1>3. /\ opened'[f] = "closed" /\ preset'[f] = {} /\ covered'[f] = {} /\ done'[f] = {}
        /\ \A v \in Bits : count'[f][v] = 0
        /\ \A g \in Files : g # f => /\ opened'[g] = opened[g] /\ preset'[g] = preset[g]
                                     /\ covered'[g] = covered[g] /\ done'[g] = done[g]
                                     /\ count'[g] = count[g]
    BY <1>1, <1>2 DEF TypeOK
  <1>4. TypeOK'
    <2>1. elem' \in [Slots -> [key : Files \cup {NoFile}, seen : SUBSET Bits]]
      BY <1>1, <1>2 DEF TypeOK, Unused
    <2>2. \A t, u \in Slots : elem'[t].key = elem'[u].key /\ elem'[t].key # NoFile => t = u
      BY <1>1, <1>2 DEF TypeOK, Unused
    <2>3. count' \in [Files -> [Bits -> 0 .. MaxLog]]
      BY <1>1, <1>2, MaxLogAssumption DEF TypeOK
    <2> QED  BY <1>1, <1>2, <2>1, <2>2, <2>3 DEF TypeOK
  <1>5. ASSUME NEW s \in Slots, elem'[s].key # NoFile PROVE elem'[s] = elem[s] /\ elem[s].key # f
    BY <1>1, <1>5 DEF Unused
  <1>6. EntryOfThisOpen'
    BY <1>2, <1>3, <1>5 DEF EntryOfThisOpen, TypeOK
  <1>7. ASSUME NEW g \in Files, Kept(g)'
        PROVE  g # f /\ Kept(g) /\ Accounted(g)' = Accounted(g)
    <2>1. g # f
      BY <1>3, <1>7 DEF Kept
    <2> QED  BY <1>1, <1>3, <1>7, <2>1 DEF Kept, Accounted
  <1>8. ElemOK'
    BY <1>3, <1>5, <1>7, NoFileAssumption DEF IInv, ElemOK
  <1>9. OpOK'
    <2> SUFFICES ASSUME NEW c \in Cpus, NEW o, o = op[c], o # NoOp
                 PROVE  /\ opened'[o.file] = "parked"
                        /\ o.access.bit \notin o.saw
                        /\ o.file \notin spoiled' =>
                              /\ elem'[o.slot].key = o.file
                              /\ preset'[o.file] \subseteq o.saw
                              /\ o.saw \subseteq Accounted(o.file)'
                        /\ \A g \in Files : Kept(g)' /\ elem'[o.slot].key = g => o.file = g
      BY <1>1 DEF OpOK, Accounted
    <2>1. o.file \in Files /\ o.slot \in Slots /\ o.file # f
      BY <1>1, <1>2 DEF TypeOK, Op
    <2>2. /\ opened[o.file] = "parked"
          /\ o.access.bit \notin o.saw
          /\ o.file \notin spoiled =>
                /\ elem[o.slot].key = o.file
                /\ preset[o.file] \subseteq o.saw
                /\ o.saw \subseteq Accounted(o.file)
          /\ \A g \in Files : Kept(g) /\ elem[o.slot].key = g => o.file = g
      BY DEF IInv, OpOK
    <2>3. Accounted(o.file)' = Accounted(o.file)
      BY <1>3, <2>1 DEF Accounted
    <2>4. o.file \notin spoiled' => o.file \notin spoiled
      BY <1>1, <2>1
    <2>5. elem[o.slot].key # f => elem'[o.slot] = elem[o.slot]
      BY <1>1, <2>1
    <2>6. \A g \in Files : Kept(g)' /\ elem'[o.slot].key = g => Kept(g) /\ elem[o.slot].key = g
      BY <1>5, <1>7, <2>1, NoFileAssumption
    <2> QED  BY <1>3, <2>1, <2>2, <2>3, <2>4, <2>5, <2>6
  <1>10. ClosedClean'
    BY <1>3 DEF IInv, ClosedClean
  <1>11. NoSilentVerb'
    <2> SUFFICES ASSUME NEW g \in Files, Kept(g)' PROVE done'[g] \subseteq Accounted(g)'
      BY DEF NoSilentVerb, Accounted
    <2>1. done[g] \subseteq Accounted(g)
      BY <1>7 DEF IInv, NoSilentVerb, Accounted
    <2> QED  BY <1>3, <1>7, <2>1
  <1>12. PresetNeverLogged'
    BY <1>3, <1>7 DEF IInv, PresetNeverLogged
  <1> QED  BY <1>4, <1>6, <1>8, <1>9, <1>10, <1>11, <1>12 DEF IInv

LEMMA NextIInv == IInv /\ [Next]_vars => IInv'
  <1> SUFFICES ASSUME IInv, [Next]_vars PROVE IInv'
    OBVIOUS
  <1>1. CASE \E f \in Files, quiet \in Quiet, created \in BOOLEAN : OpenPark(f, quiet, created)
    BY <1>1, OpenParkIInv
  <1>2. CASE \E f \in Files : OpenPlain(f)
    BY <1>2, OpenPlainIInv
  <1>3. CASE \E c \in Cpus, f \in Files, a \in Accesses : AccessLoad(c, f, a)
    BY <1>3, AccessLoadIInv
  <1>4. CASE \E c \in Cpus : AccessStore(c)
    BY <1>4, AccessStoreIInv
  <1>5. CASE \E f \in Files : FileFree(f)
    BY <1>5, FileFreeIInv
  <1>6. CASE UNCHANGED vars
    BY <1>6 DEF vars, mapVars, histVars, IInv, TypeOK, EntryOfThisOpen, ElemOK, OpOK, ClosedClean,
       NoSilentVerb, PresetNeverLogged, Kept, Accounted
  <1> QED  BY <1>1, <1>2, <1>3, <1>4, <1>5, <1>6 DEF Next

LEMMA SpecIInv == Spec => []IInv
  <1> QED  BY InitIInv, NextIInv, PTL DEF Spec

\* No verb of a file that the LRU left alone is lost, however CPUs race on its bits.
THEOREM NoVerbLost == Spec => []NoSilentVerb
  <1>1. IInv => NoSilentVerb
    BY DEF IInv
  <1> QED  BY <1>1, SpecIInv, PTL

\* No racing store brings a verb back that was dropped, or covered by the create, at the open.
THEOREM PresetStays == Spec => []PresetNeverLogged
  <1>1. IInv => PresetNeverLogged
    BY DEF IInv
  <1> QED  BY <1>1, SpecIInv, PTL

\* What is found under a file's address is of its present open.
THEOREM EntryIsOfOpen == Spec => []EntryOfThisOpen
  <1>1. IInv => EntryOfThisOpen
    BY DEF IInv
  <1> QED  BY <1>1, SpecIInv, PTL

\* The map, the calls under way and the histories keep their types.
THEOREM TypeCorrect == Spec => []TypeOK
  <1>1. IInv => TypeOK
    BY DEF IInv
  <1> QED  BY <1>1, SpecIInv, PTL
=============================================================================
