---------------------------- MODULE RecorderProofs ----------------------------
(***************************************************************************)
(* Recorder, for every build: every list of patterns and rules, all sizes  *)
(* of the tables.                                                          *)
(*                                                                         *)
(* LoadedWhenTracked: nothing of load() is missing while a task is tracked.*)
(* A step counts as done by what it leaves in the maps, and no later step  *)
(* of the same load undoes it: inserts only add, and a map is shared and a *)
(* program attached once.  Serving begins behind the last step, and        *)
(* whatever ends it empties all that the steps have filled.                *)
(*                                                                         *)
(* CredCorrect: an open of any path is logged exactly when a pattern       *)
(* covers it.  The lemmas follow the hook: what a key of the path matches  *)
(* (SubstrMatch, TailMatch, SuffixMatch), what a trie full of patterns     *)
(* answers (LookupIs, ScanIs, NameIs), what is logged then (OpenRight).    *)
(***************************************************************************)
EXTENDS Recorder, SequenceTheorems, WellFoundedInduction, TLAPS

\* A function on 1 .. n is a sequence of that length.
LEMMA FunSeq ==
    ASSUME NEW T, NEW n \in Nat, NEW e \in [1 .. n -> T]
    PROVE  e \in Seq(T) /\ Len(e) = n
  <1>1. e \in Seq(T)
    OBVIOUS
  <1>2. Len(e) \in Nat /\ DOMAIN e = 1 .. Len(e) /\ DOMAIN e = 1 .. n
    BY <1>1, LenProperties
  <1> DEFINE m == Len(e)
  <1> HIDE DEF m
  <1>3. m \in Nat /\ 1 .. m = 1 .. n
    BY <1>2 DEF m
  <1>4. ~(m < n) /\ ~(n < m)
    BY <1>3
  <1>5. m = n
    BY <1>3, <1>4
  <1> QED  BY <1>1, <1>5 DEF m

\* Each step of a list of one kind is of that kind.
LEMMA EachSeq ==
    ASSUME NEW what, NEW S, NEW s \in Seq(S)
    PROVE  /\ Each(what, s) \in Seq([do : {what}, of : S])
           /\ Len(Each(what, s)) = Len(s)
           /\ \A i \in 1 .. Len(s) : Each(what, s)[i] = Do(what, s[i])
  <1>1. Len(s) \in Nat /\ DOMAIN s = 1 .. Len(s) /\ s \in [1 .. Len(s) -> S]
    BY LenProperties
  <1>2. Each(what, s) \in [1 .. Len(s) -> [do : {what}, of : S]]
    BY <1>1 DEF Each, Do
  <1>3. Each(what, s) \in Seq([do : {what}, of : S]) /\ Len(Each(what, s)) = Len(s)
    <2> DEFINE e == Each(what, s)
               n == Len(s)
               T == [do : {what}, of : S]
    <2>1. n \in Nat /\ e \in [1 .. n -> T]
      BY <1>1, <1>2
    <2> HIDE DEF e, n, T
    <2>2. e \in Seq(T) /\ Len(e) = n
      BY <2>1, FunSeq
    <2> QED  BY <2>2 DEF e, n, T
  <1>4. \A i \in 1 .. Len(s) : Each(what, s)[i] = Do(what, s[i])
    BY <1>1 DEF Each
  <1> QED  BY <1>3, <1>4

\* The numbers of a list's elements are a list.
LEMMA NumbersSeq ==
    ASSUME NEW s, DOMAIN s = 1 .. Len(s), Len(s) \in Nat
    PROVE  Numbers(s) \in Seq(DOMAIN s)
  <1> DEFINE e == Numbers(s)
  <1>1. e \in [1 .. Len(s) -> DOMAIN s]
    BY DEF Numbers
  <1> HIDE DEF e
  <1>2. e \in Seq(DOMAIN s)
    BY <1>1
  <1> QED  BY <1>2 DEF e

\* What is attached.
Names == {"mon_files_open", "mon_files_permission", "mon_files_mmap", "mon_files_truncate",
          "mon_files_free", "mon_files_unlink", "mon_files_rmdir", "mon_files_rename",
          "mon_proc_fork", "mon_proc_exec", "mon_proc_exit", "mon_net_connect", "mon_net_sendmsg",
          "mon_net_udp_sendmsg", "mon_udp_recvmsg", "mon_file2_open", "mon_dns_udp_sendmsg",
          "mon_dns_udpv6_sendmsg", "mon_iter_task", "mon_iter_task_file", "mon_iter_tcp"}

\* What a step of load() can be.
StepSet == [do : {"load"}, of : Objects] \cup [do : {"pattern"}, of : DOMAIN patterns]
           \cup [do : {"rule"}, of : DOMAIN rules]
           \cup [do : {"attach"}, of : Names] \cup [do : {"jmp"}, of : {"qname", "answers"}]

BuildOK ==
    /\ DOMAIN patterns = 1 .. Len(patterns) /\ Len(patterns) \in Nat
    /\ DOMAIN rules = 1 .. Len(rules) /\ Len(rules) \in Nat

\* The list has this element.
Has(s, x) == \E i \in DOMAIN s : s[i] = x

\* What is in one of two lists is in both together.
LEMMA JoinHas ==
    ASSUME NEW S, NEW s \in Seq(S), NEW t \in Seq(S)
    PROVE  s \o t \in Seq(S) /\ \A x : Has(s, x) \/ Has(t, x) => Has(s \o t, x)
  <1>1. PICK m \in Nat : m = Len(s) /\ DOMAIN s = 1 .. m
    BY LenProperties
  <1>2. PICK n \in Nat : n = Len(t) /\ DOMAIN t = 1 .. n
    BY LenProperties
  <1>3. PICK u : u = s \o t
    OBVIOUS
  <1>4. /\ u \in Seq(S) /\ Len(u) = m + n
        /\ \A i \in 1 .. m + n : u[i] = IF i <= m THEN s[i] ELSE t[i - m]
    BY <1>1, <1>2, <1>3, ConcatProperties
  <1>5. DOMAIN u = 1 .. m + n
    BY <1>4, LenProperties
  <1>6. ASSUME NEW i \in 1 .. m PROVE i \in DOMAIN u /\ u[i] = s[i]
    BY <1>4, <1>5
  <1>7. ASSUME NEW i \in 1 .. n PROVE m + i \in DOMAIN u /\ u[m + i] = t[i]
    <2>1. m + i \in 1 .. m + n /\ (m + i) - m = i
      OBVIOUS
    <2>2. m + i <= m => FALSE
      OBVIOUS
    <2> QED  BY <1>4, <1>5, <2>1, <2>2
  <1>8. ASSUME NEW x, Has(s, x) PROVE Has(u, x)
    BY <1>1, <1>6, <1>8 DEF Has
  <1>9. ASSUME NEW x, Has(t, x) PROVE Has(u, x)
    BY <1>2, <1>7, <1>9 DEF Has
  <1> QED  BY <1>3, <1>4, <1>8, <1>9

\* Each element of a list has a step of its own.
LEMMA EachHas ==
    ASSUME NEW what, NEW S, NEW s \in Seq(S), NEW x, Has(s, x)
    PROVE  Has(Each(what, s), Do(what, x))
  <1>1. PICK e : e = Each(what, s)
    OBVIOUS
  <1>2. DOMAIN e = 1 .. Len(s) /\ \A i \in 1 .. Len(s) : e[i] = Do(what, s[i])
    <2>1. /\ e \in Seq([do : {what}, of : S]) /\ Len(e) = Len(s)
          /\ \A i \in 1 .. Len(s) : e[i] = Do(what, s[i])
      BY <1>1, EachSeq
    <2> QED  BY <2>1, LenProperties
  <1>3. DOMAIN s = 1 .. Len(s)
    BY LenProperties
  <1> QED  BY <1>1, <1>2, <1>3 DEF Has

\* Only the programs and the iterators are attached, and all of them are.
LEMMA AttachedNames ==
    ASSUME NEW p, p = Programs("files") \o Programs("procs") \o Programs("net")
                      \o Programs("file2") \o Programs("dns") \o Iterators
    PROVE  p \in Seq(Names) /\ \A x \in Names : Has(p, x)
  <1> DEFINE a == <<"mon_files_open", "mon_files_permission", "mon_files_mmap",
                    "mon_files_truncate", "mon_files_free", "mon_files_unlink",
                    "mon_files_rmdir", "mon_files_rename">>
             b == <<"mon_proc_fork", "mon_proc_exec", "mon_proc_exit">>
             c == <<"mon_net_connect", "mon_net_sendmsg", "mon_net_udp_sendmsg",
                    "mon_udp_recvmsg">>
             d == <<"mon_file2_open">>
             e == <<"mon_dns_udp_sendmsg", "mon_dns_udpv6_sendmsg">>
             f == <<"mon_iter_task", "mon_iter_task_file", "mon_iter_tcp">>
  <1>1. p = (((((a \o b) \o c) \o d) \o e) \o f)
    BY DEF Programs, Iterators
  <1>2. a \in Seq(Names) /\ \A i \in 1 .. 8 : Has(a, a[i])
    BY DEF Names, Has
  <1>3. b \in Seq(Names) /\ \A i \in 1 .. 3 : Has(b, b[i])
    BY DEF Names, Has
  <1>4. c \in Seq(Names) /\ \A i \in 1 .. 4 : Has(c, c[i])
    BY DEF Names, Has
  <1>5. d \in Seq(Names) /\ \A i \in 1 .. 1 : Has(d, d[i])
    BY DEF Names, Has
  <1>6. e \in Seq(Names) /\ \A i \in 1 .. 2 : Has(e, e[i])
    BY DEF Names, Has
  <1>7. f \in Seq(Names) /\ \A i \in 1 .. 3 : Has(f, f[i])
    BY DEF Names, Has
  <1>8. \A x \in Names : \/ \E i \in 1 .. 8 : x = a[i]
                         \/ \E i \in 1 .. 3 : x = b[i]
                         \/ \E i \in 1 .. 4 : x = c[i]
                         \/ \E i \in 1 .. 1 : x = d[i]
                         \/ \E i \in 1 .. 2 : x = e[i]
                         \/ \E i \in 1 .. 3 : x = f[i]
    BY DEF Names
  <1> HIDE DEF a, b, c, d, e, f
  <1>9. \A x \in Names : \/ Has(a, x) \/ Has(b, x) \/ Has(c, x)
                         \/ Has(d, x) \/ Has(e, x) \/ Has(f, x)
    BY <1>2, <1>3, <1>4, <1>5, <1>6, <1>7, <1>8
  <1>10. PICK ab : ab = a \o b
    OBVIOUS
  <1>11. ab \in Seq(Names) /\ \A x : Has(a, x) \/ Has(b, x) => Has(ab, x)
    BY <1>2, <1>3, <1>10, JoinHas
  <1>12. PICK abc : abc = ab \o c
    OBVIOUS
  <1>13. abc \in Seq(Names) /\ \A x : Has(ab, x) \/ Has(c, x) => Has(abc, x)
    BY <1>4, <1>11, <1>12, JoinHas
  <1>14. PICK abcd : abcd = abc \o d
    OBVIOUS
  <1>15. abcd \in Seq(Names) /\ \A x : Has(abc, x) \/ Has(d, x) => Has(abcd, x)
    BY <1>5, <1>13, <1>14, JoinHas
  <1>16. PICK abcde : abcde = abcd \o e
    OBVIOUS
  <1>17. abcde \in Seq(Names) /\ \A x : Has(abcd, x) \/ Has(e, x) => Has(abcde, x)
    BY <1>6, <1>15, <1>16, JoinHas
  <1>18. p \in Seq(Names) /\ \A x : Has(abcde, x) \/ Has(f, x) => Has(p, x)
    <2>1. p = abcde \o f
      BY <1>1, <1>10, <1>12, <1>14, <1>16
    <2>2. /\ abcde \o f \in Seq(Names)
          /\ \A x : Has(abcde, x) \/ Has(f, x) => Has(abcde \o f, x)
      BY <1>7, <1>17, JoinHas
    <2> QED  BY <2>1, <2>2
  <1> QED  BY <1>9, <1>11, <1>13, <1>15, <1>17, <1>18

\* load() consists of such steps, and every such step is in it.
LEMMA StepsSeq ==
    ASSUME BuildOK
    PROVE  Steps \in Seq(StepSet) /\ \A x \in StepSet : Has(Steps, x)
  <1> DEFINE a == Each("load", <<"files", "procs", "net", "file2">>)
             b == Each("pattern", Numbers(patterns))
             c == Each("load", <<"dns">>)
             d == Each("rule", Numbers(rules))
             p == Programs("files") \o Programs("procs") \o Programs("net")
                      \o Programs("file2") \o Programs("dns") \o Iterators
             e == Each("attach", p)
             f == Each("jmp", <<"qname", "answers">>)
  <1>a. a \in Seq(StepSet) /\ \A o \in Objects \ {"dns"} : Has(a, Do("load", o))
    <2> DEFINE l == <<"files", "procs", "net", "file2">>
    <2>1. l \in Seq(Objects)
      BY DEF Objects
    <2>2. \A o \in Objects \ {"dns"} : Has(l, o)
      BY DEF Objects, Has
    <2>3. a = Each("load", l)
      OBVIOUS
    <2> HIDE DEF l, a
    <2>4. a \in Seq([do : {"load"}, of : Objects])
      BY <2>1, <2>3, EachSeq
    <2>5. \A o \in Objects \ {"dns"} : Has(a, Do("load", o))
      BY <2>1, <2>2, <2>3, EachHas
    <2>6. [do : {"load"}, of : Objects] \subseteq StepSet
      BY DEF StepSet
    <2> QED  BY <2>4, <2>5, <2>6, SeqMonotonic
  <1>b. b \in Seq(StepSet) /\ \A k \in DOMAIN patterns : Has(b, Do("pattern", k))
    <2>1. PICK n, D : n = Numbers(patterns) /\ D = DOMAIN patterns
      OBVIOUS
    <2>2. n \in Seq(D) /\ \A k \in D : Has(n, k)
      BY <2>1, NumbersSeq DEF BuildOK, Numbers, Has
    <2>3. b = Each("pattern", n)
      BY <2>1
    <2> HIDE DEF b
    <2>4. b \in Seq([do : {"pattern"}, of : D])
      BY <2>2, <2>3, EachSeq
    <2>5. \A k \in D : Has(b, Do("pattern", k))
      BY <2>2, <2>3, EachHas
    <2>6. [do : {"pattern"}, of : D] \subseteq StepSet
      BY <2>1 DEF StepSet
    <2> QED  BY <2>1, <2>4, <2>5, <2>6, SeqMonotonic
  <1>c. c \in Seq(StepSet) /\ Has(c, Do("load", "dns"))
    <2>1. PICK l : l = <<"dns">>
      OBVIOUS
    <2>2. l \in Seq(Objects) /\ Has(l, "dns")
      BY <2>1 DEF Objects, Has
    <2>3. c = Each("load", l)
      BY <2>1
    <2> HIDE DEF c
    <2>4. c \in Seq([do : {"load"}, of : Objects])
      BY <2>2, <2>3, EachSeq
    <2>5. Has(c, Do("load", "dns"))
      BY <2>2, <2>3, EachHas
    <2>6. [do : {"load"}, of : Objects] \subseteq StepSet
      BY DEF StepSet
    <2> QED  BY <2>4, <2>5, <2>6, SeqMonotonic
  <1>d. d \in Seq(StepSet) /\ \A k \in DOMAIN rules : Has(d, Do("rule", k))
    <2>1. PICK n, D : n = Numbers(rules) /\ D = DOMAIN rules
      OBVIOUS
    <2>2. n \in Seq(D) /\ \A k \in D : Has(n, k)
      BY <2>1, NumbersSeq DEF BuildOK, Numbers, Has
    <2>3. d = Each("rule", n)
      BY <2>1
    <2> HIDE DEF d
    <2>4. d \in Seq([do : {"rule"}, of : D])
      BY <2>2, <2>3, EachSeq
    <2>5. \A k \in D : Has(d, Do("rule", k))
      BY <2>2, <2>3, EachHas
    <2>6. [do : {"rule"}, of : D] \subseteq StepSet
      BY <2>1 DEF StepSet
    <2> QED  BY <2>1, <2>4, <2>5, <2>6, SeqMonotonic
  <1>e. e \in Seq(StepSet) /\ \A x \in Names : Has(e, Do("attach", x))
    <2>1. p \in Seq(Names) /\ \A x \in Names : Has(p, x)
      BY AttachedNames
    <2> HIDE DEF p
    <2>2. e \in Seq([do : {"attach"}, of : Names])
      BY <2>1, EachSeq
    <2>3. \A x \in Names : Has(e, Do("attach", x))
      BY <2>1, EachHas
    <2>4. [do : {"attach"}, of : Names] \subseteq StepSet
      BY DEF StepSet
    <2> HIDE DEF e
    <2> QED  BY <2>2, <2>3, <2>4, SeqMonotonic
  <1>f. f \in Seq(StepSet) /\ \A x \in {"qname", "answers"} : Has(f, Do("jmp", x))
    <2>1. PICK l, J : l = <<"qname", "answers">> /\ J = {"qname", "answers"}
      OBVIOUS
    <2>2. l \in Seq(J) /\ \A x \in J : Has(l, x)
      BY <2>1 DEF Has
    <2>3. f = Each("jmp", l)
      BY <2>1
    <2> HIDE DEF f
    <2>4. f \in Seq([do : {"jmp"}, of : J])
      BY <2>2, <2>3, EachSeq
    <2>5. \A x \in J : Has(f, Do("jmp", x))
      BY <2>2, <2>3, EachHas
    <2>6. [do : {"jmp"}, of : J] \subseteq StepSet
      BY <2>1 DEF StepSet
    <2> QED  BY <2>1, <2>4, <2>5, <2>6, SeqMonotonic
  <1>s. Steps = (((((a \o b) \o c) \o d) \o e) \o f)
    BY DEF Steps
  <1>x. \A x \in StepSet :
            \/ \E o \in Objects : x = Do("load", o)
            \/ \E k \in DOMAIN patterns : x = Do("pattern", k)
            \/ \E k \in DOMAIN rules : x = Do("rule", k)
            \/ \E n \in Names : x = Do("attach", n)
            \/ \E j \in {"qname", "answers"} : x = Do("jmp", j)
    BY DEF StepSet, Do
  <1> HIDE DEF a, b, c, d, e, f
  <1>1. PICK ab : ab = a \o b
    OBVIOUS
  <1>2. ab \in Seq(StepSet) /\ \A x : Has(a, x) \/ Has(b, x) => Has(ab, x)
    BY <1>a, <1>b, <1>1, JoinHas
  <1>3. PICK abc : abc = ab \o c
    OBVIOUS
  <1>4. abc \in Seq(StepSet) /\ \A x : Has(ab, x) \/ Has(c, x) => Has(abc, x)
    BY <1>c, <1>2, <1>3, JoinHas
  <1>5. PICK abcd : abcd = abc \o d
    OBVIOUS
  <1>6. abcd \in Seq(StepSet) /\ \A x : Has(abc, x) \/ Has(d, x) => Has(abcd, x)
    BY <1>d, <1>4, <1>5, JoinHas
  <1>7. PICK abcde : abcde = abcd \o e
    OBVIOUS
  <1>8. abcde \in Seq(StepSet) /\ \A x : Has(abcd, x) \/ Has(e, x) => Has(abcde, x)
    BY <1>e, <1>6, <1>7, JoinHas
  <1>9. Steps \in Seq(StepSet) /\ \A x : Has(abcde, x) \/ Has(f, x) => Has(Steps, x)
    BY <1>f, <1>s, <1>1, <1>3, <1>5, <1>7, <1>8, JoinHas
  <1>10. \A x : Has(a, x) \/ Has(b, x) \/ Has(c, x) \/ Has(d, x) \/ Has(e, x) \/ Has(f, x)
                => Has(Steps, x)
    BY <1>2, <1>4, <1>6, <1>8, <1>9
  <1>11. ASSUME NEW o \in Objects PROVE Has(Steps, Do("load", o))
    BY <1>a, <1>c, <1>10
  <1>12. \A k \in DOMAIN patterns : Has(Steps, Do("pattern", k))
    BY <1>b, <1>10
  <1>13. \A k \in DOMAIN rules : Has(Steps, Do("rule", k))
    BY <1>d, <1>10
  <1>14. \A n \in Names : Has(Steps, Do("attach", n))
    BY <1>e, <1>10
  <1>15. \A j \in {"qname", "answers"} : Has(Steps, Do("jmp", j))
    BY <1>f, <1>10
  <1> QED  BY <1>x, <1>9, <1>11, <1>12, <1>13, <1>14, <1>15

-----------------------------------------------------------------------------
\* The inductive invariant: what load() has done is there until the daemon leaves; tasks are
\* tracked in mon_files' map, and not before it serves.
Inv ==
    /\ BuildOK
    /\ phase \in {"loading", "serving", "dropping", "down"}
    /\ step \in 1 .. Len(Steps) + 1
    /\ DOMAIN ctxMap = Objects
    /\ tries = [patterns |-> tries.patterns, name_suffix |-> tries.name_suffix]
    /\ phase = "down" => step = 1
    /\ phase = "serving" => step = Len(Steps) + 1
    /\ phase \in {"loading", "serving"} => \A i \in 1 .. step - 1 : Done(Steps[i])
    /\ tracked \subseteq {"files"}
    /\ tracked # {} => phase \in {"serving", "dropping"}

LEMMA InvReady == Inv => ReadyWhenTracked
  <1> SUFFICES ASSUME Inv, tracked # {}, phase = "serving"
               PROVE  /\ tracked = {"files"}
                      /\ \A i \in DOMAIN Steps : Done(Steps[i])
    BY DEF ReadyWhenTracked
  <1>1. tracked = {"files"}
    BY DEF Inv
  <1>2. DOMAIN Steps = 1 .. Len(Steps) /\ Len(Steps) \in Nat
    BY StepsSeq, LenProperties DEF Inv
  <1>3. \A i \in DOMAIN Steps : Done(Steps[i])
    BY <1>2 DEF Inv
  <1> QED  BY <1>1, <1>3

LEMMA InitInv == Init => Inv
  <1> SUFFICES ASSUME Init PROVE Inv
    OBVIOUS
  <1>1. BuildOK
    BY BuildsAssumption DEF Init, BuildOK
  <1>2. Len(Steps) \in Nat
    BY <1>1, StepsSeq, LenProperties
  <1>3. step \in 1 .. Len(Steps) + 1
    BY <1>2 DEF Init
  <1> QED  BY <1>1, <1>3 DEF Init, Inv, NoPatterns

\* The steps do not change.
LEMMA SameSteps ==
    ASSUME UNCHANGED <<patterns, rules>>
    PROVE  /\ Steps' = Steps /\ BuildOK' = BuildOK
  BY DEF Steps, BuildOK, Each, Do, Numbers, Programs, Iterators

\* A step of load() takes nothing of the earlier ones away.
Grows ==
    /\ \A o \in Objects : ctxMap[o] = "files" => ctxMap'[o] = "files"
    /\ DOMAIN tries.patterns \subseteq DOMAIN tries'.patterns
    /\ DOMAIN tries.name_suffix \subseteq DOMAIN tries'.name_suffix
    /\ DOMAIN trie \subseteq DOMAIN trie'
    /\ links \subseteq links' /\ jmp \subseteq jmp'

LEMMA DoneKept ==
    ASSUME BuildOK, UNCHANGED <<patterns, rules>>, Grows, NEW i \in DOMAIN Steps, Done(Steps[i])
    PROVE  Done(Steps[i])'
  <1> DEFINE s == Steps[i]
  <1>1. s \in StepSet
    BY StepsSeq, ElementOfSeq, LenProperties
  <1>2. (Steps[i])' = s
    BY SameSteps
  <1>3. Done(s)
    OBVIOUS
  <1>4. /\ s.do \in {"load", "pattern", "rule", "attach", "jmp"}
        /\ s.do = "load" => s.of \in Objects
    BY <1>1 DEF StepSet
  <1> HIDE DEF s
  <1>5. CASE s.do = "load"
    BY <1>2, <1>3, <1>4, <1>5 DEF Done, Grows
  <1>6. CASE s.do = "pattern"
    BY <1>2, <1>3, <1>6 DEF Done, Grows, PatternData
  <1>7. CASE s.do = "rule"
    BY <1>2, <1>3, <1>7 DEF Done, Grows, RuleData
  <1>8. CASE s.do = "attach"
    BY <1>2, <1>3, <1>8 DEF Done, Grows
  <1>9. CASE s.do = "jmp"
    BY <1>2, <1>3, <1>9 DEF Done, Grows
  <1> QED  BY <1>4, <1>5, <1>6, <1>7, <1>8, <1>9

\* It adds its own.
LEMMA Progress ==
    ASSUME Inv, UNCHANGED <<patterns, rules, phase, tracked>>, NEW n, n = step,
           phase = "loading", step \in DOMAIN Steps, step' = step + 1,
           DOMAIN ctxMap' = Objects,
           tries' = [patterns |-> tries'.patterns, name_suffix |-> tries'.name_suffix],
           Grows, Done(Steps[n])'
    PROVE  Inv'
  <1>1. Steps' = Steps /\ BuildOK' = BuildOK
    BY SameSteps
  <1>2. DOMAIN Steps = 1 .. Len(Steps) /\ Len(Steps) \in Nat
    BY StepsSeq, LenProperties DEF Inv
  <1>3. step' \in 1 .. Len(Steps) + 1 /\ step \in Nat
    BY <1>2
  <1>4. ASSUME NEW i \in 1 .. step' - 1 PROVE Done(Steps[i])'
    <2>1. CASE i = step
      BY <2>1
    <2>2. CASE i # step
      <3>1. i \in 1 .. step - 1 /\ i \in DOMAIN Steps
        BY <1>2, <1>3, <2>2
      <3>2. Done(Steps[i])
        BY <3>1 DEF Inv
      <3> QED  BY <3>1, <3>2, DoneKept DEF Inv
    <2> QED  BY <2>1, <2>2
  <1>5. (phase \in {"loading", "serving"} => \A i \in 1 .. step - 1 : Done(Steps[i]))'
    BY <1>4
  <1>6. (phase \in {"loading", "serving", "dropping", "down"})'
    BY DEF Inv
  <1>7. (step \in 1 .. Len(Steps) + 1)'
    BY <1>1, <1>3
  <1>8. (tracked \subseteq {"files"})' /\ (tracked # {} => phase \in {"serving", "dropping"})'
    BY DEF Inv
  <1>9. BuildOK'
    BY <1>1 DEF Inv
  <1> HIDE DEF Inv
  <1> QED  BY <1>5, <1>6, <1>7, <1>8, <1>9 DEF Inv

-----------------------------------------------------------------------------
\* The steps of load().

LEMMA TakeStep ==
    ASSUME Inv, NEW w, Take(w)
    PROVE  /\ step \in DOMAIN Steps /\ phase = "loading" /\ step' = step + 1
           /\ Steps[step].do = w /\ Steps[step] \in StepSet
           /\ w = "load" => Steps[step].of \in Objects
  <1>1. step \in DOMAIN Steps /\ Steps[step].do = w
    BY DEF Take
  <1>2. Steps[step] \in StepSet
    BY <1>1, StepsSeq, ElementOfSeq, LenProperties DEF Inv
  <1>3. w = "load" => Steps[step].of \in Objects
    BY <1>1, <1>2 DEF StepSet
  <1> QED  BY <1>1, <1>2, <1>3 DEF Take


LEMMA LoadInv == Inv /\ Load => Inv'
  <1> SUFFICES ASSUME Inv, Load PROVE Inv'
    OBVIOUS
  <1> DEFINE s == Steps[step]
  <1>1. /\ step \in DOMAIN Steps /\ phase = "loading" /\ step' = step + 1
        /\ s.do = "load" /\ s.of \in Objects
    BY TakeStep DEF Load
  <1>2. /\ UNCHANGED <<patterns, rules, phase, tries, trie, links, jmp, tracked>>
        /\ ctxMap' = [ctxMap EXCEPT ![s.of] = "files"]
    BY DEF Load
  <1>3. DOMAIN ctxMap = Objects /\ tries = [patterns |-> tries.patterns, name_suffix |-> tries.name_suffix]
    BY DEF Inv
  <1> PICK n : n = step
    OBVIOUS
  <1>4. (Steps[n])' = s
    BY <1>2, SameSteps
  <1> HIDE DEF s
  <1>5. Done(Steps[n])'
    BY <1>1, <1>2, <1>3, <1>4 DEF Done
  <1>6. Grows
    BY <1>2, <1>3 DEF Grows
  <1> QED  BY <1>1, <1>2, <1>3, <1>5, <1>6, Progress

\* An update of the trie keeps its keys and adds one.
LEMMA UpdateGrows ==
    ASSUME NEW t, NEW d, NEW r
    PROVE  DOMAIN Update(t, d, r) = DOMAIN t \cup {d}
  BY DEF Update

LEMMA LoadPatternInv == Inv /\ LoadPattern => Inv'
  <1> SUFFICES ASSUME Inv, LoadPattern PROVE Inv'
    OBVIOUS
  <1> PICK n : n = step
    OBVIOUS
  <1> PICK s : s = Steps[step]
    OBVIOUS
  <1> PICK p : p = patterns[s.of]
    OBVIOUS
  <1> PICK d : d = PatternData(p)
    OBVIOUS
  <1>1. /\ step \in DOMAIN Steps /\ phase = "loading" /\ step' = step + 1 /\ s.do = "pattern"
    BY TakeStep DEF LoadPattern
  <1>2. /\ UNCHANGED <<patterns, rules, phase, ctxMap, trie, links, jmp, tracked>>
        /\ tries' = InsertPattern(tries, p, s.of)
    BY DEF LoadPattern
  <1>3. DOMAIN ctxMap = Objects /\ tries = [patterns |-> tries.patterns, name_suffix |-> tries.name_suffix]
    BY DEF Inv
  <1>4. (Steps[n])' = s
    BY <1>2, SameSteps
  <1>5. /\ tries' = [patterns |-> tries'.patterns, name_suffix |-> tries'.name_suffix]
        /\ DOMAIN tries.patterns \subseteq DOMAIN tries'.patterns
        /\ DOMAIN tries.name_suffix \subseteq DOMAIN tries'.name_suffix
        /\ p.kind = "NameSuffix" => d \in DOMAIN tries'.name_suffix
        /\ p.kind # "NameSuffix" => d \in DOMAIN tries'.patterns
    <2>1. CASE p.kind = "NameSuffix"
      <3> PICK u : u = Update(tries.name_suffix, d, s.of)
        OBVIOUS
      <3>1. DOMAIN u = DOMAIN tries.name_suffix \cup {d}
        BY UpdateGrows
      <3>2. tries' = [patterns |-> tries.patterns, name_suffix |-> u]
        BY <1>2, <1>3, <2>1 DEF InsertPattern
      <3>3. tries'.patterns = tries.patterns /\ tries'.name_suffix = u
        BY <3>2
      <3> QED  BY <2>1, <3>1, <3>2, <3>3
    <2>2. CASE p.kind # "NameSuffix"
      <3> PICK u : u = Update(tries.patterns, d, s.of)
        OBVIOUS
      <3>1. DOMAIN u = DOMAIN tries.patterns \cup {d}
        BY UpdateGrows
      <3>2. tries' = [patterns |-> u, name_suffix |-> tries.name_suffix]
        BY <1>2, <1>3, <2>2 DEF InsertPattern
      <3>3. tries'.name_suffix = tries.name_suffix /\ tries'.patterns = u
        BY <3>2
      <3> QED  BY <2>2, <3>1, <3>2, <3>3
    <2> QED  BY <2>1, <2>2
  <1>6. Done(Steps[n])'
    <2>1. patterns'[s.of] = p
      BY <1>2
    <2> QED  BY <1>1, <1>4, <1>5, <2>1 DEF Done
  <1>7. Grows
    BY <1>2, <1>5 DEF Grows
  <1> QED  BY <1>1, <1>2, <1>3, <1>5, <1>6, <1>7, Progress

LEMMA LoadRuleInv == Inv /\ LoadRule => Inv'
  <1> SUFFICES ASSUME Inv, LoadRule PROVE Inv'
    OBVIOUS
  <1> DEFINE s == Steps[step]
             d == RuleData(rules[s.of])
  <1>1. /\ step \in DOMAIN Steps /\ phase = "loading" /\ step' = step + 1 /\ s.do = "rule"
    BY TakeStep DEF LoadRule
  <1>2. /\ UNCHANGED <<patterns, rules, phase, ctxMap, tries, links, jmp, tracked>>
        /\ trie' = Update(trie, d, s.of)
    BY DEF LoadRule
  <1>3. DOMAIN ctxMap = Objects /\ tries = [patterns |-> tries.patterns, name_suffix |-> tries.name_suffix]
    BY DEF Inv
  <1> PICK n : n = step
    OBVIOUS
  <1>4. (Steps[n])' = s
    BY <1>2, SameSteps
  <1>5. d \in DOMAIN trie' /\ DOMAIN trie \subseteq DOMAIN trie'
    <2> HIDE DEF d
    <2> PICK u : u = Update(trie, d, s.of)
      OBVIOUS
    <2>1. DOMAIN u = DOMAIN trie \cup {d}
      BY UpdateGrows
    <2> QED  BY <1>2, <2>1
  <1> HIDE DEF s
  <1>6. Done(Steps[n])'
    BY <1>1, <1>2, <1>4, <1>5 DEF Done, RuleData
  <1>7. Grows
    BY <1>2, <1>5 DEF Grows
  <1> QED  BY <1>1, <1>2, <1>3, <1>6, <1>7, Progress

LEMMA AttachInv == Inv /\ Attach => Inv'
  <1> SUFFICES ASSUME Inv, Attach PROVE Inv'
    OBVIOUS
  <1> DEFINE s == Steps[step]
  <1>1. /\ step \in DOMAIN Steps /\ phase = "loading" /\ step' = step + 1 /\ s.do = "attach"
    BY TakeStep DEF Attach
  <1>2. /\ UNCHANGED <<patterns, rules, phase, ctxMap, tries, trie, jmp, tracked>>
        /\ links' = links \cup {s.of}
    BY DEF Attach
  <1>3. DOMAIN ctxMap = Objects /\ tries = [patterns |-> tries.patterns, name_suffix |-> tries.name_suffix]
    BY DEF Inv
  <1> PICK n : n = step
    OBVIOUS
  <1>4. (Steps[n])' = s
    BY <1>2, SameSteps
  <1> HIDE DEF s
  <1>5. Done(Steps[n])'
    BY <1>1, <1>2, <1>4 DEF Done
  <1>6. Grows
    BY <1>2 DEF Grows
  <1> QED  BY <1>1, <1>2, <1>3, <1>5, <1>6, Progress

LEMMA FillJmpInv == Inv /\ FillJmp => Inv'
  <1> SUFFICES ASSUME Inv, FillJmp PROVE Inv'
    OBVIOUS
  <1> DEFINE s == Steps[step]
  <1>1. /\ step \in DOMAIN Steps /\ phase = "loading" /\ step' = step + 1 /\ s.do = "jmp"
    BY TakeStep DEF FillJmp
  <1>2. /\ UNCHANGED <<patterns, rules, phase, ctxMap, tries, trie, links, tracked>>
        /\ jmp' = jmp \cup {s.of}
    BY DEF FillJmp
  <1>3. DOMAIN ctxMap = Objects /\ tries = [patterns |-> tries.patterns, name_suffix |-> tries.name_suffix]
    BY DEF Inv
  <1> PICK n : n = step
    OBVIOUS
  <1>4. (Steps[n])' = s
    BY <1>2, SameSteps
  <1> HIDE DEF s
  <1>5. Done(Steps[n])'
    BY <1>1, <1>2, <1>4 DEF Done
  <1>6. Grows
    BY <1>2 DEF Grows
  <1> QED  BY <1>1, <1>2, <1>3, <1>5, <1>6, Progress

-----------------------------------------------------------------------------
\* The rest of the daemon's life.

\* A step that touches nothing load() has made.
LEMMA Kept ==
    ASSUME Inv, UNCHANGED <<patterns, rules, step, ctxMap, tries, trie, links, jmp>>,
           phase' \in {"loading", "serving", "dropping", "down"},
           phase' = "down" => step = 1,
           phase' = "serving" => step = Len(Steps) + 1,
           phase' \in {"loading", "serving"} =>
               phase \in {"loading", "serving"} \/ step = 1,
           tracked' \subseteq {"files"},
           tracked' # {} => phase' \in {"serving", "dropping"}
    PROVE  Inv'
  <1>1. Steps' = Steps /\ BuildOK' = BuildOK
    BY SameSteps
  <1>2. DOMAIN Steps = 1 .. Len(Steps) /\ Len(Steps) \in Nat
    BY StepsSeq, LenProperties DEF Inv
  <1>3. ASSUME phase' \in {"loading", "serving"}, NEW i \in 1 .. step' - 1 PROVE Done(Steps[i])'
    <2>1. phase \in {"loading", "serving"} /\ i \in 1 .. step - 1 /\ i \in DOMAIN Steps
      BY <1>2, <1>3 DEF Inv
    <2>2. Done(Steps[i])
      BY <2>1 DEF Inv
    <2> QED  BY <2>1, <2>2, DoneKept DEF Inv, Grows
  <1>4. (phase \in {"loading", "serving"} => \A i \in 1 .. step - 1 : Done(Steps[i]))'
    BY <1>3
  <1>5. /\ BuildOK'
        /\ (step \in 1 .. Len(Steps) + 1)' /\ (DOMAIN ctxMap = Objects)'
        /\ (tries = [patterns |-> tries.patterns, name_suffix |-> tries.name_suffix])'
        /\ (phase = "down" => step = 1)'
        /\ (phase = "serving" => step = Len(Steps) + 1)'
    BY <1>1 DEF Inv
  <1> HIDE DEF Inv
  <1> QED  BY <1>4, <1>5 DEF Inv

LEMMA DropObjectsInv == Inv /\ DropObjects => Inv'
  <1> SUFFICES ASSUME Inv, DropObjects PROVE Inv'
    OBVIOUS
  <1>1. Steps' = Steps /\ BuildOK' = BuildOK
    BY SameSteps DEF DropObjects
  <1>2. Len(Steps) \in Nat
    BY StepsSeq, LenProperties DEF Inv
  <1>3. /\ phase' = "down" /\ step' = 1 /\ DOMAIN ctxMap' = Objects /\ tracked' = {}
        /\ tries' = [patterns |-> Empty, name_suffix |-> Empty]
    BY DEF DropObjects, NoPatterns
  <1>4. BuildOK'
    BY <1>1 DEF Inv
  <1> HIDE DEF Inv
  <1> QED  BY <1>1, <1>2, <1>3, <1>4 DEF Inv

\* While the daemon serves, every step is done.
LEMMA StepDone ==
    ASSUME Inv, phase = "serving", NEW x \in StepSet
    PROVE  Done(x)
  <1>1. PICK i \in DOMAIN Steps : Steps[i] = x
    BY StepsSeq DEF Inv, Has
  <1>2. DOMAIN Steps = 1 .. Len(Steps) /\ Len(Steps) \in Nat
    BY StepsSeq, LenProperties DEF Inv
  <1>3. i \in 1 .. step - 1
    BY <1>2 DEF Inv
  <1>4. Done(Steps[i])
    BY <1>3 DEF Inv
  <1> QED  BY <1>1, <1>4

\* While the daemon serves, every object uses mon_files' map.
LEMMA OneMap ==
    ASSUME Inv, phase = "serving", NEW o \in Objects
    PROVE  ctxMap[o] = "files"
  <1>1. Do("load", o) \in StepSet
    BY DEF StepSet, Do
  <1>2. Done(Do("load", o))
    BY <1>1, StepDone
  <1> QED  BY <1>2 DEF Done, Do

LEMMA TrackInv == Inv /\ Track => Inv'
  <1> SUFFICES ASSUME Inv, Track PROVE Inv'
    OBVIOUS
  <1>3. ctxMap["procs"] = "files"
    <2>1. "procs" \in Objects
      BY DEF Objects
    <2> QED  BY <2>1, OneMap DEF Track
  <1>4. tracked' \subseteq {"files"}
    BY <1>3 DEF Track, Inv
  <1> QED  BY <1>4, Kept DEF Track, Inv

LEMMA NextInv == Inv /\ [Next]_vars => Inv'
  <1> SUFFICES ASSUME Inv, [Next]_vars PROVE Inv'
    OBVIOUS
  <1>1. CASE Load
    BY <1>1, LoadInv
  <1>2. CASE LoadPattern
    BY <1>2, LoadPatternInv
  <1>3. CASE LoadRule
    BY <1>3, LoadRuleInv
  <1>4. CASE Attach
    BY <1>4, AttachInv
  <1>5. CASE FillJmp
    BY <1>5, FillJmpInv
  <1>6. CASE Bind
    BY <1>6, Kept DEF Bind, Inv
  <1>7. CASE Leave
    BY <1>7, Kept DEF Leave, Inv
  <1>8. CASE DropLink
    <2>1. Steps' = Steps /\ BuildOK' = BuildOK
      BY <1>8, SameSteps DEF DropLink
    <2>2. phase = "dropping" /\ UNCHANGED <<phase, step, ctxMap, tries, tracked>>
      BY <1>8 DEF DropLink
    <2> QED  BY <2>1, <2>2 DEF Inv
  <1>9. CASE DropObjects
    BY <1>9, DropObjectsInv
  <1>10. CASE Restart
    BY <1>10, Kept DEF Restart, Inv
  <1>11. CASE Track
    BY <1>11, TrackInv
  <1>12. CASE \E c \in Calls : Call(c)
    BY <1>12, Kept DEF Call, Inv
  <1>13. CASE Return
    BY <1>13, Kept DEF Return, Inv
  <1>14. CASE UNCHANGED vars
    BY <1>14, Kept DEF vars, Inv
  <1> QED
    BY <1>1, <1>2, <1>3, <1>4, <1>5, <1>6, <1>7, <1>8, <1>9, <1>10, <1>11, <1>12, <1>13, <1>14
       DEF Next, Loading, Dropping

\* Whatever patterns and rules the daemon is built with, and wherever a load fails: while a task
\* is tracked and the daemon serves, every table is filled, every hook is attached and all objects
\* use mon_files' task map.
THEOREM LoadedWhenTracked == Spec => []ReadyWhenTracked
  <1>1. Init => Inv
    BY InitInv
  <1>2. Inv /\ [Next]_vars => Inv'
    BY NextInv
  <1>3. Inv => ReadyWhenTracked
    BY InvReady
  <1> QED  BY <1>1, <1>2, <1>3, PTL DEF Spec

-----------------------------------------------------------------------------
(***************************************************************************)
(* Numbers and sequences.                                                  *)
(***************************************************************************)

\* A set of numbers that is not empty has a least one, and a greatest one if it is bounded.
LEMMA LeastNumber ==
    ASSUME NEW T, T \subseteq Nat, T # {}
    PROVE  \E m \in T : \A n \in T : m <= n
  <1> DEFINE R == {ss \in Nat \X Nat : ss[1] < ss[2]}
  <1>1. IsWellFoundedOn(R, Nat)
    BY NatLessThanWellFounded DEF OpToRel
  <1>2. PICK m \in T : \A n \in T : ~(<<n, m>> \in R)
    <2> HIDE DEF R
    <2> QED  BY <1>1, WFMin
  <1>3. \A n \in T : ~(n < m)
    BY <1>2
  <1> QED  BY <1>3

LEMMA GreatestNumber ==
    ASSUME NEW b \in Nat, NEW T, T \subseteq 0 .. b, T # {}
    PROVE  \E m \in T : \A n \in T : n <= m
  <1> DEFINE U == {b - n : n \in T}
  <1>1. U \subseteq Nat /\ U # {}
    <2>1. \A n \in T : b - n \in Nat
      OBVIOUS
    <2> QED  BY <2>1
  <1>2. PICK u \in U : \A n \in U : u <= n
    <2> HIDE DEF U
    <2> QED  BY <1>1, LeastNumber
  <1>3. PICK m \in T : u = b - m
    OBVIOUS
  <1>4. ASSUME NEW n \in T PROVE n <= m
    <2>1. b - n \in U
      OBVIOUS
    <2>2. b - m <= b - n
      BY <1>2, <1>3, <2>1
    <2> QED  BY <2>2
  <1> QED  BY <1>4

LEMMA MinIs ==
    ASSUME NEW T, T \subseteq Nat, T # {}
    PROVE  Min(T) \in T /\ \A n \in T : Min(T) <= n
  BY LeastNumber DEF Min

LEMMA MaxIs ==
    ASSUME NEW b \in Nat, NEW T, T \subseteq 0 .. b, T # {}
    PROVE  Max(T) \in T /\ \A n \in T : n <= Max(T)
  <1>1. PICK m \in T : \A n \in T : n <= m
    BY GreatestNumber
  <1>2. \A n \in T : m >= n
    BY <1>1
  <1>3. Max(T) \in T /\ \A n \in T : Max(T) >= n
    BY <1>2 DEF Max
  <1>4. \A n \in T : n \in Int
    OBVIOUS
  <1> QED  BY <1>3, <1>4

LEMMA MinTwo ==
    ASSUME NEW a \in Nat, NEW b \in Nat
    PROVE  /\ Min({a, b}) \in Nat
           /\ Min({a, b}) = IF a <= b THEN a ELSE b
  <1>1. Min({a, b}) \in {a, b} /\ \A n \in {a, b} : Min({a, b}) <= n
    <2>1. {a, b} \subseteq Nat /\ {a, b} # {}
      OBVIOUS
    <2> HIDE DEF Min
    <2> QED  BY <2>1, MinIs
  <1> QED  BY <1>1

\* A prefix, element by element.
LEMMA PrefixIs ==
    ASSUME NEW S, NEW s \in Seq(S), NEW t \in Seq(S)
    PROVE  IsPrefix(s, t) <=> Len(s) <= Len(t) /\ \A j \in 1 .. Len(s) : s[j] = t[j]
  <1>1. PICK m \in Nat : m = Len(s) /\ DOMAIN s = 1 .. m /\ \A j \in 1 .. m : s[j] \in S
    BY LenProperties
  <1>2. PICK k \in Nat : k = Len(t) /\ DOMAIN t = 1 .. k /\ \A j \in 1 .. k : t[j] \in S
    BY LenProperties
  <1>3. SubSeq(s, 1, m) = s
    BY <1>1, SubSeqFull
  <1>4. CASE m <= k
    <2>1. \A j \in 1 .. m : t[j] \in S
      BY <1>2, <1>4
    <2>2. PICK u : u = SubSeq(t, 1, m)
      OBVIOUS
    <2>3. u \in Seq(S) /\ Len(u) = m /\ \A j \in 1 .. m : u[j] = t[j]
      BY <2>1, <2>2, SubSeqProperties
    <2>4. s = u <=> \A j \in 1 .. m : s[j] = u[j]
      BY <1>1, <2>3, SeqEqual
    <2> QED  BY <1>1, <1>2, <1>3, <1>4, <2>2, <2>3, <2>4 DEF IsPrefix
  <1>5. CASE ~(m <= k)
    BY <1>1, <1>2, <1>5 DEF IsPrefix
  <1> QED  BY <1>4, <1>5

\* Reversal, element by element.
LEMMA ReverseIs ==
    ASSUME NEW S, NEW s \in Seq(S)
    PROVE  /\ Reverse(s) \in Seq(S) /\ Len(Reverse(s)) = Len(s)
           /\ \A j \in 1 .. Len(s) : Reverse(s)[j] = s[Len(s) - j + 1]
  <1>1. PICK m \in Nat : m = Len(s) /\ \A j \in 1 .. m : s[j] \in S
    BY LenProperties
  <1>2. PICK r : r = Reverse(s)
    OBVIOUS
  <1>3. r = [j \in 1 .. m |-> s[(m - j) + 1]]
    BY <1>1, <1>2 DEF Reverse
  <1>4. \A j \in 1 .. m : s[(m - j) + 1] \in S
    BY <1>1
  <1>5. r \in [1 .. m -> S]
    BY <1>3, <1>4
  <1>6. r \in Seq(S) /\ Len(r) = m
    BY <1>5, FunSeq
  <1> QED  BY <1>1, <1>2, <1>3, <1>6

-----------------------------------------------------------------------------
\* What a trie answers.  Its keys are sequences, and its rules are numbered from 1.
IsTrie(t, S, N) == DOMAIN t \subseteq Seq(S) /\ \A d \in DOMAIN t : t[d] \in 1 .. N

LEMMA LookupIs ==
    ASSUME NEW S, NEW N \in Nat, NEW t, IsTrie(t, S, N), NEW key \in Seq(S)
    PROVE  \/ Lookup(t, key) = NoRule /\ \A d \in DOMAIN t : ~IsPrefix(d, key)
           \/ \E d \in DOMAIN t :
                 /\ IsPrefix(d, key) /\ Lookup(t, key) = t[d] /\ t[d] # NoRule
                 /\ \A e \in DOMAIN t : IsPrefix(e, key) => Len(e) <= Len(d)
  <1> DEFINE hits == {d \in DOMAIN t : IsPrefix(d, key)}
  <1>1. CASE hits = {}
    BY <1>1 DEF Lookup
  <1>2. CASE hits # {}
    <2>1. PICK b \in Nat : b = Len(key)
      BY LenProperties
    <2>2. \A d \in hits : Len(d) \in Nat /\ Len(d) <= b
      BY <2>1, LenProperties DEF IsPrefix, IsTrie
    <2>3. PICK T : T = {Len(d) : d \in hits}
      OBVIOUS
    <2>4. T \subseteq 0 .. b /\ T # {}
      BY <1>2, <2>2, <2>3
    <2>5. PICK m \in T : \A n \in T : n <= m
      BY <2>4, GreatestNumber
    <2>6. \E d \in hits : \A e \in hits : Len(e) <= Len(d)
      BY <2>3, <2>5
    <2>7. PICK d : d = CHOOSE h \in hits : \A e \in hits : Len(e) <= Len(h)
      OBVIOUS
    <2>8. d \in hits /\ \A e \in hits : Len(e) <= Len(d)
      BY <2>6, <2>7
    <2>9. Lookup(t, key) = t[d]
      BY <1>2, <2>7 DEF Lookup
    <2>10. t[d] # NoRule
      BY <2>8 DEF IsTrie, NoRule
    <2> QED  BY <2>8, <2>9, <2>10
  <1> QED  BY <1>1, <1>2

-----------------------------------------------------------------------------
(***************************************************************************)
(* What the keys of an open match.                                         *)
(***************************************************************************)

\* The path, L characters, and what is behind it, of characters in S.
OpenOf(o, S, L) ==
    /\ L = Len(o.path) /\ o.path \in Seq(S) /\ o.stale \in Seq(S) /\ NUL \in S
    /\ \A i \in 1 .. Len(o.path) : o.path[i] # NUL

LEMMA BytesIs ==
    ASSUME NEW S, NEW o, NEW L \in Nat, OpenOf(o, S, L)
    PROVE  /\ \A i \in 1 .. L : Bytes(o)[i] = o.path[i]
           /\ Bytes(o)[L + 1] = NUL
           /\ \A i \in 1 .. L + 1 : Bytes(o)[i] \in S
  <1>1. PICK p \in Seq(S) : p = o.path /\ L = Len(p)
    BY DEF OpenOf
  <1>2. PICK q \in Seq(S) : q = o.stale
    BY DEF OpenOf
  <1>3. PICK z : z = <<NUL>>
    OBVIOUS
  <1>4. z \in Seq(S) /\ Len(z) = 1 /\ z[1] = NUL
    BY <1>3 DEF OpenOf
  <1>5. PICK pz : pz = p \o z
    OBVIOUS
  <1>6. /\ pz \in Seq(S) /\ Len(pz) = L + 1
        /\ \A i \in 1 .. L : pz[i] = p[i]
        /\ pz[L + 1] = NUL
    <2>0. /\ pz \in Seq(S) /\ Len(pz) = Len(p) + Len(z)
          /\ \A i \in 1 .. Len(p) + Len(z) : pz[i] = IF i <= Len(p) THEN p[i] ELSE z[i - Len(p)]
      BY <1>4, <1>5, ConcatProperties
    <2>5. Len(p) = L /\ Len(z) = 1
      BY <1>1, <1>4
    <2>1. \A i \in 1 .. L + 1 : pz[i] = IF i <= L THEN p[i] ELSE z[i - L]
      BY <2>0, <2>5
    <2>2. pz \in Seq(S) /\ Len(pz) = L + 1
      BY <2>0, <2>5
    <2>3. L + 1 \in 1 .. L + 1 /\ ~(L + 1 <= L) /\ L + 1 - L = 1
      OBVIOUS
    <2>4. pz[L + 1] = z[1]
      BY <2>1, <2>3
    <2> QED  BY <1>4, <2>1, <2>2, <2>4
  <1>7. Len(q) \in Nat
    BY LenProperties
  <1>8. PICK all : all = pz \o q
    OBVIOUS
  <1>9. \A i \in 1 .. L + 1 : all[i] = pz[i]
    <2>1. \A i \in 1 .. Len(pz) + Len(q) : all[i] = IF i <= Len(pz) THEN pz[i] ELSE q[i - Len(pz)]
      BY <1>6, <1>8, ConcatProperties
    <2>2. PICK m \in Nat : m = Len(q)
      BY <1>7
    <2>3. PICK k \in Nat : k = Len(pz) /\ k = L + 1
      BY <1>6
    <2>4. \A i \in 1 .. k + m : all[i] = IF i <= k THEN pz[i] ELSE q[i - k]
      BY <2>1, <2>2, <2>3
    <2> QED  BY <2>3, <2>4
  <1>10. Bytes(o) = all
    BY <1>1, <1>2, <1>3, <1>5, <1>8 DEF Bytes
  <1>11. \A i \in 1 .. L + 1 : pz[i] \in S
    BY <1>6, ElementOfSeq
  <1> QED  BY <1>1, <1>6, <1>9, <1>10, <1>11, SMTT(30)

\* scan_cb's key stops behind the path's NUL, or at MAX_PAT bytes.
KeyLen(L, i) == IF L + 2 - i <= MAX_PAT THEN L + 2 - i ELSE MAX_PAT

LEMMA KeyIs ==
    ASSUME NEW S, NEW o, NEW L \in Nat, OpenOf(o, S, L), NEW i \in 1 .. L + 1
    PROVE  /\ ScanKey(o, L + 1, i) \in Seq(S)
           /\ KeyLen(L, i) \in Nat /\ Len(ScanKey(o, L + 1, i)) = KeyLen(L, i)
           /\ \A j \in 1 .. KeyLen(L, i) :
                 /\ i + j - 1 <= L + 1
                 /\ i + j - 1 <= L => ScanKey(o, L + 1, i)[j] = o.path[i + j - 1]
                 /\ i + j - 1 = L + 1 => ScanKey(o, L + 1, i)[j] = NUL
  <1>1. PICK n : n = KeyLen(L, i)
    OBVIOUS
  <1>2. n \in Nat /\ i + n - 1 <= L + 1
    BY <1>1, CredSizesAssumption DEF KeyLen
  <1>3. Min({(L + 1) - i + 1, MAX_PAT}) = n
    <2>1. (L + 1) - i + 1 \in Nat /\ MAX_PAT \in Nat
      BY CredSizesAssumption
    <2>2. PICK a \in Nat : a = (L + 1) - i + 1 /\ a = L + 2 - i
      BY <2>1
    <2>3. Min({a, MAX_PAT}) = IF a <= MAX_PAT THEN a ELSE MAX_PAT
      BY <2>1, MinTwo
    <2>4. n = IF a <= MAX_PAT THEN a ELSE MAX_PAT
      BY <1>1, <2>2 DEF KeyLen
    <2> QED  BY <2>2, <2>3, <2>4, Zenon
  <1>4. PICK b : b = Bytes(o)
    OBVIOUS
  <1>5. PICK k : k = SubSeq(b, i, i + n - 1)
    OBVIOUS
  <1>6. ScanKey(o, L + 1, i) = k
    BY <1>3, <1>4, <1>5 DEF ScanKey
  <1>7. /\ \A m \in 1 .. L : b[m] = o.path[m]
        /\ b[L + 1] = NUL
        /\ \A m \in 1 .. L + 1 : b[m] \in S
    BY <1>4, BytesIs
  <1>8. \A m \in i .. i + n - 1 : b[m] \in S
    BY <1>2, <1>7
  <1>9. k \in Seq(S) /\ Len(k) = n /\ \A j \in 1 .. n : k[j] = b[i + j - 1]
    <2>1. i \in Int /\ i + n - 1 \in Int /\ (i + n - 1) - i + 1 = n
      BY <1>2
    <2>2. /\ k \in Seq(S)
          /\ Len(k) = IF i <= i + n - 1 THEN (i + n - 1) - i + 1 ELSE 0
          /\ \A j \in 1 .. (i + n - 1) - i + 1 : k[j] = b[i + j - 1]
      BY <1>5, <1>8, <2>1, SubSeqProperties
    <2> QED  BY <1>2, <2>1, <2>2
  <1>10. ASSUME NEW j \in 1 .. n
         PROVE  /\ i + j - 1 <= L + 1
                /\ i + j - 1 <= L => k[j] = o.path[i + j - 1]
                /\ i + j - 1 = L + 1 => k[j] = NUL
    <2>1. PICK x \in 1 .. L + 1 : x = i + j - 1
      BY <1>2
    <2>2. k[j] = b[x]
      BY <1>9, <2>1
    <2>3. x <= L => b[x] = o.path[x]
      BY <1>7
    <2>4. x = L + 1 => b[x] = NUL
      BY <1>7
    <2> QED  BY <2>1, <2>2, <2>3, <2>4
  <1> QED  BY <1>1, <1>2, <1>6, <1>9, <1>10

\* A '/'-anchored pattern, of characters in S, with room for more behind it.
PatternOf(pat, S, room) ==
    /\ pat \in Seq(S) /\ Len(pat) >= 1 /\ Len(pat) + room <= MAX_PAT
    /\ \A j \in 1 .. Len(pat) : pat[j] # NUL

\* The part of a path from i on.
LEMMA RestIs ==
    ASSUME NEW S, NEW path \in Seq(S), NEW L \in Nat, L = Len(path), NEW i \in 1 .. L + 1
    PROVE  /\ SubSeq(path, i, L) \in Seq(S) /\ Len(SubSeq(path, i, L)) = L - i + 1
           /\ \A j \in 1 .. L - i + 1 : SubSeq(path, i, L)[j] = path[i + j - 1]
  <1>1. \A m \in i .. L : path[m] \in S
    BY ElementOfSeq
  <1>2. /\ SubSeq(path, i, L) \in Seq(S)
        /\ Len(SubSeq(path, i, L)) = IF i <= L THEN L - i + 1 ELSE 0
        /\ \A j \in 1 .. L - i + 1 : SubSeq(path, i, L)[j] = path[i + j - 1]
    BY <1>1, SubSeqProperties
  <1>3. (IF i <= L THEN L - i + 1 ELSE 0) = L - i + 1
    OBVIOUS
  <1> QED  BY <1>2, <1>3

\* A '/'-anchored piece of a path is found at i exactly if it stands there.
LEMMA SubstrMatch ==
    ASSUME NEW S, NEW o, NEW L \in Nat, OpenOf(o, S, L), NEW i \in 1 .. L + 1,
           NEW pat, PatternOf(pat, S, 0)
    PROVE  IsPrefix(pat, ScanKey(o, L + 1, i)) <=> i \in 1 .. L /\ TextAt(pat, o.path, i)
  <1>0. pat \in Seq(S)
    BY DEF PatternOf
  <1>1. PICK m \in Nat : /\ m = Len(pat) /\ m >= 1 /\ m <= MAX_PAT
                         /\ \A j \in 1 .. m : pat[j] # NUL
    <2>1. PICK m \in Nat : m = Len(pat)
      BY <1>0, LenProperties
    <2>2. m + 0 <= MAX_PAT /\ m >= 1 /\ \A j \in 1 .. m : pat[j] # NUL
      BY <2>1 DEF PatternOf
    <2>3. m + 0 = m
      OBVIOUS
    <2> QED  BY <2>1, <2>2, <2>3
  <1>2. PICK k : k = ScanKey(o, L + 1, i)
    OBVIOUS
  <1>3. PICK n \in Nat : /\ n = KeyLen(L, i) /\ k \in Seq(S) /\ Len(k) = n
                         /\ \A j \in 1 .. n :
                               /\ i + j - 1 <= L + 1
                               /\ i + j - 1 <= L => k[j] = o.path[i + j - 1]
                               /\ i + j - 1 = L + 1 => k[j] = NUL
    <2>1. /\ ScanKey(o, L + 1, i) \in Seq(S)
          /\ KeyLen(L, i) \in Nat /\ Len(ScanKey(o, L + 1, i)) = KeyLen(L, i)
          /\ \A j \in 1 .. KeyLen(L, i) :
                /\ i + j - 1 <= L + 1
                /\ i + j - 1 <= L => ScanKey(o, L + 1, i)[j] = o.path[i + j - 1]
                /\ i + j - 1 = L + 1 => ScanKey(o, L + 1, i)[j] = NUL
      BY KeyIs
    <2> QED  BY <1>2, <2>1, Zenon
  <1>4. IsPrefix(pat, k) <=> m <= n /\ \A j \in 1 .. m : pat[j] = k[j]
    <2>1. IsPrefix(pat, k) <=> Len(pat) <= Len(k) /\ \A j \in 1 .. Len(pat) : pat[j] = k[j]
      BY <1>0, <1>3, PrefixIs, SMTT(30)
    <2> QED  BY <1>1, <1>3, <2>1, Zenon
  <1>5. PICK r : r = SubSeq(o.path, i, L)
    OBVIOUS
  <1>6. PICK q \in Nat : /\ q = L - i + 1 /\ r \in Seq(S) /\ Len(r) = q
                         /\ \A j \in 1 .. q : r[j] = o.path[i + j - 1]
    <2>1. PICK q \in Nat : q = L - i + 1
      OBVIOUS
    <2>2. /\ SubSeq(o.path, i, L) \in Seq(S) /\ Len(SubSeq(o.path, i, L)) = L - i + 1
          /\ \A j \in 1 .. L - i + 1 : SubSeq(o.path, i, L)[j] = o.path[i + j - 1]
      BY RestIs DEF OpenOf
    <2> QED  BY <1>5, <2>1, <2>2
  <1>7. TextAt(pat, o.path, i) <=> m <= q /\ \A j \in 1 .. m : pat[j] = r[j]
    <2>1. IsPrefix(pat, r) <=> Len(pat) <= Len(r) /\ \A j \in 1 .. Len(pat) : pat[j] = r[j]
      BY <1>0, <1>6, PrefixIs
    <2>2. TextAt(pat, o.path, i) <=> IsPrefix(pat, r)
      BY <1>5 DEF TextAt, OpenOf
    <2> QED  BY <1>1, <1>6, <2>1, <2>2, Zenon
  <1>8. ASSUME m <= n, \A j \in 1 .. m : pat[j] = k[j]
        PROVE  i <= L /\ m <= q /\ \A j \in 1 .. m : pat[j] = r[j]
    <2>1. ASSUME NEW j \in 1 .. m PROVE i + j - 1 <= L /\ pat[j] = r[j]
      <3>1. j \in 1 .. n /\ pat[j] # NUL
        BY <1>1, <1>8
      <3>2. i + j - 1 <= L
        <4>1. i + j - 1 <= L + 1 /\ i + j - 1 # L + 1
          BY <1>3, <1>8, <3>1
        <4> QED  BY <4>1
      <3>3. j \in 1 .. q
        BY <1>6, <3>2
      <3> QED  BY <1>3, <1>6, <1>8, <3>1, <3>2, <3>3
    <2>2. 1 \in 1 .. m /\ m \in 1 .. m
      BY <1>1
    <2>3. i + 1 - 1 <= L /\ i + m - 1 <= L
      BY <2>1, <2>2
    <2> QED  BY <1>6, <2>1, <2>3
  <1>9. ASSUME i <= L, m <= q, \A j \in 1 .. m : pat[j] = r[j]
        PROVE  m <= n /\ \A j \in 1 .. m : pat[j] = k[j]
    <2>1. m <= n
      BY <1>1, <1>3, <1>6, <1>9, CredSizesAssumption DEF KeyLen
    <2>2. ASSUME NEW j \in 1 .. m PROVE pat[j] = k[j]
      <3>1. j \in 1 .. q /\ j \in 1 .. n /\ i + j - 1 <= L
        BY <1>6, <1>9, <2>1
      <3>2. k[j] = o.path[i + j - 1]
        BY <1>3, <3>1
      <3>3. r[j] = o.path[i + j - 1]
        BY <1>6, <3>1
      <3> QED  BY <1>9, <3>2, <3>3
    <2> QED  BY <2>1, <2>2
  <1> QED  BY <1>2, <1>4, <1>7, <1>8, <1>9

\* A tail, which ends in a NUL, is found at i exactly if it is the path from i on.
LEMMA TailMatch ==
    ASSUME NEW S, NEW o, NEW L \in Nat, OpenOf(o, S, L), NEW i \in 1 .. L + 1,
           NEW pat, PatternOf(pat, S, 1)
    PROVE  IsPrefix(Append(pat, NUL), ScanKey(o, L + 1, i))
              <=> i \in 1 .. L /\ pat = SubSeq(o.path, i, L)
  <1>0. pat \in Seq(S)
    BY DEF PatternOf
  <1>1. PICK m \in Nat : /\ m = Len(pat) /\ m >= 1 /\ m + 1 <= MAX_PAT
                         /\ \A j \in 1 .. m : pat[j] # NUL
    <2>1. PICK m \in Nat : m = Len(pat)
      BY <1>0, LenProperties
    <2>2. m + 1 <= MAX_PAT /\ m >= 1 /\ \A j \in 1 .. m : pat[j] # NUL
      BY <2>1 DEF PatternOf
    <2> QED  BY <2>1, <2>2
  <1>2. PICK k : k = ScanKey(o, L + 1, i)
    OBVIOUS
  <1>3. PICK n \in Nat : /\ n = KeyLen(L, i) /\ k \in Seq(S) /\ Len(k) = n
                         /\ \A j \in 1 .. n :
                               /\ i + j - 1 <= L + 1
                               /\ i + j - 1 <= L => k[j] = o.path[i + j - 1]
                               /\ i + j - 1 = L + 1 => k[j] = NUL
    <2>1. /\ ScanKey(o, L + 1, i) \in Seq(S)
          /\ KeyLen(L, i) \in Nat /\ Len(ScanKey(o, L + 1, i)) = KeyLen(L, i)
          /\ \A j \in 1 .. KeyLen(L, i) :
                /\ i + j - 1 <= L + 1
                /\ i + j - 1 <= L => ScanKey(o, L + 1, i)[j] = o.path[i + j - 1]
                /\ i + j - 1 = L + 1 => ScanKey(o, L + 1, i)[j] = NUL
      BY KeyIs
    <2> QED  BY <1>2, <2>1, Zenon
  <1>4. PICK d : d = Append(pat, NUL)
    OBVIOUS
  <1>5. d \in Seq(S) /\ Len(d) = m + 1 /\ (\A j \in 1 .. m : d[j] = pat[j]) /\ d[m + 1] = NUL
    BY <1>0, <1>1, <1>4, AppendProperties DEF OpenOf
  <1>6. IsPrefix(d, k) <=> m + 1 <= n /\ \A j \in 1 .. m + 1 : d[j] = k[j]
    <2>1. IsPrefix(d, k) <=> Len(d) <= Len(k) /\ \A j \in 1 .. Len(d) : d[j] = k[j]
      <3>1. d \in Seq(S) /\ k \in Seq(S)
        BY <1>3, <1>5
      <3> QED  BY <3>1, PrefixIs
    <2> QED  BY <1>3, <1>5, <2>1, Zenon
  <1>7. PICK r : r = SubSeq(o.path, i, L)
    OBVIOUS
  <1>8. PICK q \in Nat : /\ q = L - i + 1 /\ r \in Seq(S) /\ Len(r) = q
                         /\ \A j \in 1 .. q : r[j] = o.path[i + j - 1]
    <2>1. PICK q \in Nat : q = L - i + 1
      OBVIOUS
    <2>2. /\ SubSeq(o.path, i, L) \in Seq(S) /\ Len(SubSeq(o.path, i, L)) = L - i + 1
          /\ \A j \in 1 .. L - i + 1 : SubSeq(o.path, i, L)[j] = o.path[i + j - 1]
      BY RestIs DEF OpenOf
    <2> QED  BY <1>7, <2>1, <2>2
  <1>9. pat = r <=> m = q /\ \A j \in 1 .. m : pat[j] = r[j]
    <2>1. pat = r => m = q
      BY <1>1, <1>8
    <2> QED  BY <1>0, <1>1, <1>8, <2>1, SeqEqual
  <1>10. ASSUME m + 1 <= n, \A j \in 1 .. m + 1 : d[j] = k[j]
         PROVE  i <= L /\ m = q /\ \A j \in 1 .. m : pat[j] = r[j]
    <2>1. ASSUME NEW j \in 1 .. m PROVE i + j - 1 <= L /\ pat[j] = k[j]
      <3>1. j \in 1 .. n /\ j \in 1 .. m + 1 /\ pat[j] # NUL
        BY <1>1, <1>10
      <3>2. pat[j] = k[j]
        BY <1>5, <1>10, <3>1
      <3>3. i + j - 1 <= L
        <4>1. i + j - 1 <= L + 1 /\ i + j - 1 # L + 1
          BY <1>3, <3>1, <3>2
        <4> QED  BY <4>1
      <3> QED  BY <3>2, <3>3
    <2>2. 1 \in 1 .. m /\ m \in 1 .. m /\ m + 1 \in 1 .. n /\ m + 1 \in 1 .. m + 1
      BY <1>1, <1>10
    <2>3. i + 1 - 1 <= L /\ i + m - 1 <= L
      BY <2>1, <2>2
    <2>4. k[m + 1] = NUL
      BY <1>5, <1>10, <2>2
    <2>5. ~(i + (m + 1) - 1 <= L)
      <3>1. SUFFICES ASSUME i + (m + 1) - 1 <= L PROVE FALSE
        OBVIOUS
      <3>2. k[m + 1] = o.path[i + (m + 1) - 1]
        BY <1>3, <2>2, <3>1
      <3>3. i + (m + 1) - 1 \in 1 .. L
        BY <3>1
      <3>4. o.path[i + (m + 1) - 1] # NUL
        BY <3>3 DEF OpenOf
      <3> QED  BY <2>4, <3>2, <3>4
    <2>6. i <= L /\ m = q
      BY <1>8, <2>3, <2>5
    <2>7. ASSUME NEW j \in 1 .. m PROVE pat[j] = r[j]
      <3>1. j \in 1 .. q /\ j \in 1 .. n
        BY <1>10, <2>6
      <3> QED  BY <1>3, <1>8, <2>1, <3>1
    <2> QED  BY <2>6, <2>7
  <1>11. ASSUME i <= L, m = q, \A j \in 1 .. m : pat[j] = r[j]
         PROVE  m + 1 <= n /\ \A j \in 1 .. m + 1 : d[j] = k[j]
    <2>1. m + 1 <= n
      BY <1>1, <1>3, <1>8, <1>11, CredSizesAssumption DEF KeyLen
    <2>2. ASSUME NEW j \in 1 .. m PROVE d[j] = k[j]
      <3>1. j \in 1 .. q /\ j \in 1 .. n /\ i + j - 1 <= L
        BY <1>8, <1>11, <2>1
      <3>2. k[j] = o.path[i + j - 1]
        BY <1>3, <3>1
      <3>3. r[j] = o.path[i + j - 1]
        BY <1>8, <3>1
      <3> QED  BY <1>5, <1>11, <3>2, <3>3
    <2>3. d[m + 1] = k[m + 1]
      <3>1. m + 1 \in 1 .. n /\ i + (m + 1) - 1 = L + 1
        BY <1>8, <1>11, <2>1
      <3> QED  BY <1>3, <1>5, <3>1
    <2>4. \A j \in 1 .. m + 1 : j \in 1 .. m \/ j = m + 1
      OBVIOUS
    <2> QED  BY <2>1, <2>2, <2>3, <2>4
  <1>12. i \in 1 .. L <=> i <= L
    OBVIOUS
  <1> QED  BY <1>2, <1>4, <1>6, <1>7, <1>9, <1>10, <1>11, <1>12, Zenon

\* The last '/' of a path.
LEMMA LastSlashIs ==
    ASSUME NEW S, NEW path \in Seq(S), NEW L \in Nat, L = Len(path)
    PROVE  LastSlash(path) \in Nat /\ LastSlash(path) >= 1 /\ (L >= 1 => LastSlash(path) <= L)
  <1>1. PICK T : T = {i \in DOMAIN path : path[i] = Slash} \cup {1}
    OBVIOUS
  <1>2. T \subseteq 1 .. L \cup {1} /\ T # {}
    BY <1>1, LenProperties
  <1>3. T \subseteq 0 .. L + 1
    BY <1>2
  <1>4. Max(T) \in T
    <2>1. L + 1 \in Nat
      OBVIOUS
    <2> QED  BY <1>2, <1>3, <2>1, MaxIs
  <1>5. LastSlash(path) = Max(T)
    BY <1>1 DEF LastSlash
  <1>6. Max(T) \in 1 .. L \/ Max(T) = 1
    BY <1>2, <1>4
  <1> QED  BY <1>5, <1>6

\* A path of L characters in S.
IsText(path, S, L) == path \in Seq(S) /\ L = Len(path)

\* A name suffix, reversed, is found exactly if the last component ends in it.
LEMMA SuffixMatch ==
    ASSUME NEW S, NEW L \in Nat, NEW path, IsText(path, S, L),
           NEW a \in Nat, a = LastSlash(path), a < L,
           NEW pat \in Seq(S), NEW m \in Nat, m = Len(pat), m <= NAME_MAX_REV
    PROVE  /\ NameKey(path) \in Seq(S)
           /\ IsPrefix(Reverse(pat), NameKey(path)) <=> IsSuffix(pat, SubSeq(path, a + 1, L))
  <1> USE CredSizesAssumption
  <1>1. PICK n \in Nat : n = L - a
    OBVIOUS
  <1>2. PICK k \in Nat : k = Min({n, NAME_MAX_REV}) /\ k = IF n <= NAME_MAX_REV THEN n ELSE NAME_MAX_REV
    BY MinTwo
  <1>3. a >= 1 /\ k <= n
    BY <1>2, LastSlashIs DEF IsText
  <1>4. PICK t : t = SubSeq(path, L - k + 1, L)
    OBVIOUS
  <1>5. /\ t \in Seq(S) /\ Len(t) = k
        /\ \A j \in 1 .. k : t[j] = path[(L - k + 1) + j - 1]
    <2>0. k <= L
      BY <1>1, <1>3
    <2>1. PICK i \in 1 .. L + 1 : i = L - k + 1 /\ L - i + 1 = k
      BY <2>0
    <2>2. /\ SubSeq(path, i, L) \in Seq(S) /\ Len(SubSeq(path, i, L)) = L - i + 1
          /\ \A j \in 1 .. L - i + 1 : SubSeq(path, i, L)[j] = path[i + j - 1]
      BY RestIs DEF IsText
    <2> QED  BY <1>4, <2>1, <2>2
  <1>6. PICK u : u = Reverse(t)
    OBVIOUS
  <1>7. u \in Seq(S) /\ Len(u) = k /\ \A j \in 1 .. k : u[j] = path[L - j + 1]
    <2>1. u \in Seq(S) /\ Len(u) = k /\ \A j \in 1 .. k : u[j] = t[k - j + 1]
      BY <1>5, <1>6, ReverseIs
    <2>2. ASSUME NEW j \in 1 .. k PROVE u[j] = path[L - j + 1]
      <3>1. k - j + 1 \in 1 .. k /\ (L - k + 1) + (k - j + 1) - 1 = L - j + 1
        OBVIOUS
      <3> QED  BY <1>5, <2>1, <3>1
    <2> QED  BY <2>1, <2>2
  <1>8. NameKey(path) = u
    BY <1>1, <1>2, <1>4, <1>6 DEF NameKey, IsText
  <1>9. PICK x : x = SubSeq(path, a + 1, L)
    OBVIOUS
  <1>10. /\ x \in Seq(S) /\ Len(x) = n
         /\ \A j \in 1 .. n : x[j] = path[(a + 1) + j - 1]
    <2>1. PICK i \in 1 .. L + 1 : i = a + 1 /\ L - i + 1 = n
      BY <1>1
    <2>2. /\ SubSeq(path, i, L) \in Seq(S) /\ Len(SubSeq(path, i, L)) = L - i + 1
          /\ \A j \in 1 .. L - i + 1 : SubSeq(path, i, L)[j] = path[i + j - 1]
      BY RestIs DEF IsText
    <2> QED  BY <1>9, <2>1, <2>2
  <1>11. PICK y : y = Reverse(x)
    OBVIOUS
  <1>12. y \in Seq(S) /\ Len(y) = n /\ \A j \in 1 .. n : y[j] = path[L - j + 1]
    <2>1. y \in Seq(S) /\ Len(y) = n /\ \A j \in 1 .. n : y[j] = x[n - j + 1]
      BY <1>10, <1>11, ReverseIs
    <2>2. ASSUME NEW j \in 1 .. n PROVE y[j] = path[L - j + 1]
      <3>1. n - j + 1 \in 1 .. n /\ (a + 1) + (n - j + 1) - 1 = L - j + 1
        BY <1>1, SMTT(30)
      <3> QED  BY <1>10, <2>1, <3>1
    <2> QED  BY <2>1, <2>2
  <1>13. PICK r : r = Reverse(pat)
    OBVIOUS
  <1>14. r \in Seq(S) /\ Len(r) = m
    BY <1>13, ReverseIs
  <1>15. IsPrefix(r, u) <=> m <= k /\ \A j \in 1 .. m : r[j] = u[j]
    BY <1>7, <1>14, PrefixIs, SMTT(30)
  <1>16. IsPrefix(r, y) <=> m <= n /\ \A j \in 1 .. m : r[j] = y[j]
    BY <1>12, <1>14, PrefixIs
  <1>17. m <= k <=> m <= n
    BY <1>2
  <1>18. ASSUME m <= n, NEW j \in 1 .. m PROVE u[j] = y[j]
    <2>1. j \in 1 .. k /\ j \in 1 .. n
      BY <1>17, <1>18
    <2> QED  BY <1>7, <1>12, <2>1
  <1>19. IsPrefix(r, u) <=> IsPrefix(r, y)
    BY <1>15, <1>16, <1>17, <1>18
  <1>20. IsSuffix(pat, x) <=> IsPrefix(r, y)
    BY <1>11, <1>13 DEF IsSuffix
  <1> QED  BY <1>7, <1>8, <1>9, <1>13, <1>19, <1>20

-----------------------------------------------------------------------------
(***************************************************************************)
(* An open under tries that hold a list of patterns.                       *)
(***************************************************************************)

\* Every entry is of a pattern of the list, a name suffix or not.
EntriesOf(t, pats, suffix) ==
    \A d \in DOMAIN t :
        /\ t[d] \in DOMAIN pats
        /\ PatternOk(pats[t[d]]) /\ PatternData(pats[t[d]]) = d
        /\ pats[t[d]].kind = "NameSuffix" <=> suffix

\* Every pattern of the list has its entry.
AllIn(pats, tr) ==
    \A i \in DOMAIN pats :
        PatternData(pats[i]) \in DOMAIN (IF pats[i].kind = "NameSuffix" THEN tr.name_suffix
                                         ELSE tr.patterns)

PatternsOf(pats, S) ==
    /\ DOMAIN pats = 1 .. Len(pats) /\ Len(pats) \in Nat
    /\ \A i \in DOMAIN pats : pats[i].kind \in CredKind /\ pats[i].pat \in Seq(S)

\* An accepted pattern has room for its key.
LEMMA PatternShape ==
    ASSUME NEW S, NEW p, p.kind \in CredKind, p.pat \in Seq(S), PatternOk(p)
    PROVE  /\ p.kind = "Tail" => PatternOf(p.pat, S, 1) /\ p.pat[1] = Slash
           /\ p.kind = "Substr" => PatternOf(p.pat, S, 0) /\ p.pat[1] = Slash
           /\ p.kind = "NameSuffix" => Len(p.pat) >= 1 /\ Len(p.pat) <= NAME_MAX_REV
  <1>1. PICK m \in Nat : m = Len(p.pat) /\ DOMAIN p.pat = 1 .. m
    BY LenProperties
  <1>2. m >= 1
    BY <1>1, CredSizesAssumption DEF PatternOk
  <1>3. \A j \in 1 .. m : p.pat[j] # NUL
    BY <1>1 DEF PatternOk, Range
  <1>4. CASE p.kind = "NameSuffix"
    BY <1>1, <1>2, <1>4 DEF PatternOk
  <1>5. CASE p.kind = "Tail"
    BY <1>1, <1>2, <1>3, <1>5 DEF PatternOk, PatternOf
  <1>6. CASE p.kind = "Substr"
    <2>1. p.pat[1] = Slash /\ m + 0 <= MAX_PAT
      BY <1>1, <1>6 DEF PatternOk
    <2> QED  BY <1>1, <1>2, <1>3, <1>6, <2>1 DEF PatternOf
  <1> QED  BY <1>4, <1>5, <1>6 DEF CredKind

\* A pattern's key is found in the path's at i exactly if the pattern covers the path there.
LEMMA MatchIsCover ==
    ASSUME NEW S, NEW o, NEW L \in Nat, OpenOf(o, S, L), NEW i \in 1 .. L + 1,
           NEW p, p.kind \in {"Tail", "Substr"}, p.pat \in Seq(S), PatternOk(p)
    PROVE  /\ IsPrefix(PatternData(p), ScanKey(o, L + 1, i)) <=> Covers(p, o.path, i)
           /\ Covers(p, o.path, i) => Bytes(o)[i] = Slash
  <1>1. PICK q : q = p.pat
    OBVIOUS
  <1>2. Len(o.path) = L /\ DOMAIN o.path = 1 .. L
    BY LenProperties DEF OpenOf
  <1>3. ASSUME i \in 1 .. L PROVE Bytes(o)[i] = o.path[i] /\ SubSeq(o.path, i, L)[1] = o.path[i]
    <2>1. Bytes(o)[i] = o.path[i]
      BY <1>3, BytesIs
    <2>2. \A j \in 1 .. L - i + 1 : SubSeq(o.path, i, L)[j] = o.path[i + j - 1]
      BY RestIs DEF OpenOf
    <2>3. 1 \in 1 .. L - i + 1 /\ i + 1 - 1 = i
      BY <1>3
    <2> QED  BY <2>1, <2>2, <2>3
  <1>4. CASE p.kind = "Tail"
    <2>1. PatternOf(q, S, 1) /\ q[1] = Slash
      BY <1>1, <1>4, PatternShape DEF CredKind
    <2>2. IsPrefix(Append(q, NUL), ScanKey(o, L + 1, i)) <=> i \in 1 .. L /\ q = SubSeq(o.path, i, L)
      BY <2>1, TailMatch
    <2>3. PatternData(p) = Append(q, NUL)
      BY <1>1, <1>4 DEF PatternData
    <2>4. Covers(p, o.path, i) <=> i \in 1 .. L /\ q = SubSeq(o.path, i, L)
      BY <1>1, <1>2, <1>4 DEF Covers
    <2> QED  BY <1>3, <2>1, <2>2, <2>3, <2>4
  <1>5. CASE p.kind = "Substr"
    <2>1. PatternOf(q, S, 0) /\ q[1] = Slash
      BY <1>1, <1>5, PatternShape DEF CredKind
    <2>2. IsPrefix(q, ScanKey(o, L + 1, i)) <=> i \in 1 .. L /\ TextAt(q, o.path, i)
      BY <2>1, SubstrMatch
    <2>3. PatternData(p) = q
      BY <1>1, <1>5 DEF PatternData
    <2>4. Covers(p, o.path, i) <=> i \in 1 .. L /\ TextAt(q, o.path, i)
      BY <1>1, <1>2, <1>5 DEF Covers
    <2>5. ASSUME i \in 1 .. L, TextAt(q, o.path, i) PROVE SubSeq(o.path, i, L)[1] = Slash
      <3>1. PICK r : r = SubSeq(o.path, i, L)
        OBVIOUS
      <3>2. r \in Seq(S) /\ q \in Seq(S)
        BY <3>1, <1>1, RestIs DEF OpenOf
      <3>3. IsPrefix(q, r)
        BY <1>2, <2>5, <3>1 DEF TextAt
      <3>4. PICK m \in Nat : m = Len(q) /\ m >= 1
        BY <2>1, <3>2, LenProperties DEF PatternOf
      <3>5. \A j \in 1 .. m : q[j] = r[j]
        BY <3>2, <3>3, <3>4, PrefixIs
      <3>6. 1 \in 1 .. m
        BY <3>4
      <3> QED  BY <2>1, <3>1, <3>5, <3>6
    <2> QED  BY <1>3, <2>2, <2>3, <2>4, <2>5
  <1> QED  BY <1>4, <1>5

\* An entry of the tries: of which pattern.
LEMMA EntryIs ==
    ASSUME NEW S, NEW pats, PatternsOf(pats, S), NUL \in S, NEW t, NEW suffix \in BOOLEAN,
           EntriesOf(t, pats, suffix)
    PROVE  IsTrie(t, S, Len(pats))
  <1> SUFFICES ASSUME NEW d \in DOMAIN t PROVE d \in Seq(S) /\ t[d] \in 1 .. Len(pats)
    BY DEF IsTrie
  <1>1. PICK p : p = pats[t[d]]
    OBVIOUS
  <1>2. t[d] \in DOMAIN pats /\ d = PatternData(p)
    BY <1>1 DEF EntriesOf
  <1>3. p.kind \in CredKind /\ p.pat \in Seq(S)
    BY <1>1, <1>2 DEF PatternsOf
  <1>4. PICK q \in Seq(S) : q = p.pat
    BY <1>3
  <1>5. d \in Seq(S)
    BY <1>2, <1>3, <1>4, AppendProperties, ReverseIs DEF PatternData, CredKind
  <1> QED  BY <1>2, <1>5 DEF PatternsOf

\* The tries hold the patterns of the list.
Loaded(pats, tr, S) ==
    /\ PatternsOf(pats, S) /\ \A k \in DOMAIN pats : PatternOk(pats[k])
    /\ EntriesOf(tr.patterns, pats, FALSE) /\ EntriesOf(tr.name_suffix, pats, TRUE)
    /\ AllIn(pats, tr)

\* The scan finds a pattern at i exactly if one covers the path there, and then such a one.
LEMMA ScanIs ==
    ASSUME NEW S, NEW o, NEW L \in Nat, OpenOf(o, S, L), NEW i \in 1 .. L + 1,
           NEW pats, NEW tr, Loaded(pats, tr, S),
           NEW r, r = Lookup(tr.patterns, ScanKey(o, L + 1, i))
    PROVE  /\ r # NoRule => /\ r \in DOMAIN pats /\ Covers(pats[r], o.path, i)
                            /\ Bytes(o)[i] = Slash
           /\ r = NoRule => \A k \in DOMAIN pats :
                               pats[k].kind # "NameSuffix" => ~Covers(pats[k], o.path, i)
  <1> USE DEF Loaded
  <1>1. PICK t : t = tr.patterns
    OBVIOUS
  <1>2. PICK key : key = ScanKey(o, L + 1, i)
    OBVIOUS
  <1>3. key \in Seq(S)
    BY <1>2, KeyIs
  <1>4. IsTrie(t, S, Len(pats)) /\ Len(pats) \in Nat
    BY <1>1, EntryIs DEF OpenOf, PatternsOf
  <1>5. \/ r = NoRule /\ \A d \in DOMAIN t : ~IsPrefix(d, key)
        \/ \E d \in DOMAIN t : IsPrefix(d, key) /\ r = t[d] /\ t[d] # NoRule
    BY <1>1, <1>2, <1>3, <1>4, LookupIs
  <1>6. \A k \in DOMAIN pats : pats[k].kind # "NameSuffix" =>
           pats[k].kind \in {"Tail", "Substr"} /\ pats[k].pat \in Seq(S)
    BY DEF PatternsOf, CredKind
  <1>7. ASSUME NEW d \in DOMAIN t, IsPrefix(d, key), r = t[d]
        PROVE  r \in DOMAIN pats /\ Covers(pats[r], o.path, i) /\ Bytes(o)[i] = Slash
    <2>1. PICK p : p = pats[r]
      OBVIOUS
    <2>2. r \in DOMAIN pats /\ PatternOk(p) /\ PatternData(p) = d /\ p.kind # "NameSuffix"
      BY <1>1, <1>7, <2>1 DEF EntriesOf
    <2>3. p.kind \in {"Tail", "Substr"} /\ p.pat \in Seq(S)
      BY <1>6, <2>1, <2>2
    <2>4. Covers(p, o.path, i) /\ Bytes(o)[i] = Slash
      BY <1>2, <1>7, <2>2, <2>3, MatchIsCover
    <2> QED  BY <2>1, <2>2, <2>4
  <1>8. ASSUME \A d \in DOMAIN t : ~IsPrefix(d, key),
               NEW k \in DOMAIN pats, pats[k].kind # "NameSuffix"
        PROVE  ~Covers(pats[k], o.path, i)
    <2>1. PICK p : p = pats[k]
      OBVIOUS
    <2>2. PatternOk(p) /\ PatternData(p) \in DOMAIN t
      BY <1>1, <1>8, <2>1 DEF AllIn
    <2>3. p.kind \in {"Tail", "Substr"} /\ p.pat \in Seq(S)
      BY <1>6, <1>8, <2>1
    <2>4. ~IsPrefix(PatternData(p), key)
      BY <1>8, <2>2
    <2> QED  BY <1>2, <2>1, <2>2, <2>3, <2>4, MatchIsCover
  <1> QED  BY <1>5, <1>7, <1>8

\* The same for the last component.
LEMMA NameIs ==
    ASSUME NEW S, NEW path, NEW L \in Nat, IsText(path, S, L), L >= 1, NUL \in S,
           NEW a \in Nat, a = LastSlash(path),
           NEW pats, NEW tr, Loaded(pats, tr, S),
           NEW r, r = NameLookup(path, tr.name_suffix)
    PROVE  /\ r # NoRule => r \in DOMAIN pats /\ Covers(pats[r], path, a + 1)
           /\ r = NoRule => \A k \in DOMAIN pats :
                               pats[k].kind = "NameSuffix" => ~Covers(pats[k], path, a + 1)
  <1> USE DEF Loaded
  <1>1. a >= 1 /\ a <= L
    BY LastSlashIs DEF IsText
  <1>2. PICK t : t = tr.name_suffix
    OBVIOUS
  <1>3. IsTrie(t, S, Len(pats)) /\ Len(pats) \in Nat
    BY <1>2, EntryIs DEF PatternsOf
  <1>4. ASSUME NEW k \in DOMAIN pats, pats[k].kind = "NameSuffix"
        PROVE  /\ pats[k].pat \in Seq(S) /\ Len(pats[k].pat) >= 1 /\ Len(pats[k].pat) <= NAME_MAX_REV
               /\ PatternData(pats[k]) = Reverse(pats[k].pat)
               /\ Covers(pats[k], path, a + 1) <=> IsSuffix(pats[k].pat, SubSeq(path, a + 1, L))
    <2>1. PICK p : p = pats[k]
      OBVIOUS
    <2>2. p.kind = "NameSuffix" /\ p.pat \in Seq(S) /\ PatternOk(p)
      BY <1>4, <2>1 DEF PatternsOf
    <2>3. Len(p.pat) >= 1 /\ Len(p.pat) <= NAME_MAX_REV
      BY <2>2, PatternShape DEF CredKind
    <2>4. PatternData(p) = Reverse(p.pat)
      BY <2>2 DEF PatternData
    <2>5. Covers(p, path, a + 1) <=> IsSuffix(p.pat, SubSeq(path, a + 1, L))
      BY <2>2 DEF Covers, IsText
    <2> QED  BY <2>1, <2>2, <2>3, <2>4, <2>5
  <1>5. CASE a = L
    <2>1. r = NoRule
      BY <1>5 DEF NameLookup, IsText
    <2>2. ASSUME NEW k \in DOMAIN pats, pats[k].kind = "NameSuffix"
          PROVE  ~Covers(pats[k], path, a + 1)
      <3>1. PICK x : x = SubSeq(path, a + 1, L)
        OBVIOUS
      <3>2. x \in Seq(S) /\ Len(x) = 0
        <4>1. PICK i \in 1 .. L + 1 : i = a + 1 /\ L - i + 1 = 0
          BY <1>5
        <4> QED  BY <3>1, <4>1, RestIs DEF IsText
      <3>3. PICK q \in Seq(S) : q = pats[k].pat
        BY <1>4, <2>2
      <3>4. PICK m \in Nat : m = Len(q) /\ m >= 1
        BY <1>4, <2>2, <3>3, LenProperties
      <3>5. Reverse(x) \in Seq(S) /\ Len(Reverse(x)) = 0 /\ Reverse(q) \in Seq(S) /\ Len(Reverse(q)) = m
        BY <3>2, <3>3, <3>4, ReverseIs
      <3>6. ~IsPrefix(Reverse(q), Reverse(x))
        <4>1. ~(m <= 0)
          BY <3>4
        <4> QED  BY <3>5, <4>1, PrefixIs
      <3> QED  BY <1>4, <2>2, <3>1, <3>3, <3>6 DEF IsSuffix
    <2> QED  BY <2>1, <2>2
  <1>6. CASE a # L
    <2>1. a < L
      BY <1>1, <1>6
    <2>2. PICK key : key = NameKey(path)
      OBVIOUS
    <2>3. r = Lookup(t, key)
      BY <1>2, <1>6, <2>2 DEF NameLookup, IsText
    <2>4. ASSUME NEW k \in DOMAIN pats, pats[k].kind = "NameSuffix"
          PROVE  /\ key \in Seq(S)
                 /\ IsPrefix(PatternData(pats[k]), key) <=> Covers(pats[k], path, a + 1)
      <3>1. PICK q \in Seq(S) : q = pats[k].pat
        BY <1>4, <2>4
      <3>2. PICK m \in Nat : m = Len(q) /\ m <= NAME_MAX_REV
        BY <1>4, <2>4, <3>1, LenProperties
      <3>3. key \in Seq(S) /\ (IsPrefix(Reverse(q), key) <=> IsSuffix(q, SubSeq(path, a + 1, L)))
        BY <2>1, <2>2, <3>2, SuffixMatch
      <3> QED  BY <1>4, <2>4, <3>1, <3>3
    <2>5. CASE t = <<>> \/ DOMAIN t = {}
      <3>1. DOMAIN t = {}
        BY <2>5
      <3>2. r = NoRule
        BY <2>3, <3>1 DEF Lookup
      <3>3. \A k \in DOMAIN pats : pats[k].kind # "NameSuffix"
        BY <1>2, <3>1 DEF AllIn
      <3> QED  BY <3>2, <3>3
    <2>6. CASE DOMAIN t # {}
      <3>1. PICK d \in DOMAIN t : TRUE
        BY <2>6
      <3>2. t[d] \in DOMAIN pats /\ pats[t[d]].kind = "NameSuffix"
        BY <1>2, <3>1 DEF EntriesOf
      <3>3. key \in Seq(S)
        BY <2>4, <3>2
      <3>4. \/ r = NoRule /\ \A e \in DOMAIN t : ~IsPrefix(e, key)
            \/ \E e \in DOMAIN t : IsPrefix(e, key) /\ r = t[e] /\ t[e] # NoRule
        BY <1>3, <2>3, <3>3, LookupIs
      <3>5. ASSUME NEW e \in DOMAIN t, IsPrefix(e, key), r = t[e]
            PROVE  r \in DOMAIN pats /\ Covers(pats[r], path, a + 1)
        <4>1. /\ r \in DOMAIN pats /\ pats[r].kind = "NameSuffix"
              /\ PatternData(pats[r]) = e
          BY <1>2, <3>5 DEF EntriesOf
        <4> QED  BY <2>4, <3>5, <4>1
      <3>6. ASSUME \A e \in DOMAIN t : ~IsPrefix(e, key),
                   NEW k \in DOMAIN pats, pats[k].kind = "NameSuffix"
            PROVE  ~Covers(pats[k], path, a + 1)
        <4>1. PatternData(pats[k]) \in DOMAIN t
          BY <1>2, <3>6 DEF AllIn
        <4> QED  BY <2>4, <3>6, <4>1
      <3> QED  BY <3>4, <3>5, <3>6
    <2> QED  BY <2>5, <2>6
  <1> QED  BY <1>5, <1>6

\* What the scan's offset tells of a path that is not empty.
LEMMA OffsetIs ==
    ASSUME NEW S, NEW o, NEW L \in Nat, OpenOf(o, S, L), NEW pats, NEW tr, Loaded(pats, tr, S),
           NEW off, off = ScanOff(o, L + 1, tr.patterns),
           NEW rule, rule = Lookup(tr.patterns, ScanKey(o, L + 1, off))
    PROVE  /\ off # 0 => rule \in DOMAIN pats /\ Covers(pats[rule], o.path, off)
           /\ off = 0 => \A k \in DOMAIN pats, i \in 1 .. L + 1 :
                            pats[k].kind # "NameSuffix" => ~Covers(pats[k], o.path, i)
  <1> DEFINE r(i) == Lookup(tr.patterns, ScanKey(o, L + 1, i))
  <1>1. PICK M : M = {i \in 1 .. L + 1 : Bytes(o)[i] = Slash /\ r(i) # NoRule}
    OBVIOUS
  <1>2. off = IF M = {} THEN 0 ELSE Min(M)
    BY <1>1 DEF ScanOff
  <1>3. ASSUME NEW i \in 1 .. L + 1
        PROVE  /\ r(i) # NoRule => /\ r(i) \in DOMAIN pats /\ Covers(pats[r(i)], o.path, i)
                                   /\ Bytes(o)[i] = Slash
               /\ r(i) = NoRule => \A k \in DOMAIN pats :
                                      pats[k].kind # "NameSuffix" => ~Covers(pats[k], o.path, i)
    <2>1. PICK x : x = Lookup(tr.patterns, ScanKey(o, L + 1, i))
      OBVIOUS
    <2>2. /\ x # NoRule => /\ x \in DOMAIN pats /\ Covers(pats[x], o.path, i)
                           /\ Bytes(o)[i] = Slash
          /\ x = NoRule => \A k \in DOMAIN pats :
                              pats[k].kind # "NameSuffix" => ~Covers(pats[k], o.path, i)
      BY <2>1, ScanIs
    <2> QED  BY <2>1, <2>2
  <1>4. CASE M = {}
    <2>1. off = 0
      BY <1>2, <1>4
    <2>2. \A i \in 1 .. L + 1 : r(i) = NoRule
      BY <1>1, <1>3, <1>4
    <2> HIDE DEF r
    <2> QED  BY <1>3, <2>1, <2>2
  <1>5. CASE M # {}
    <2>1. M \subseteq Nat
      BY <1>1
    <2>2. Min(M) \in M
      BY <1>5, <2>1, MinIs
    <2>3. off \in M
      BY <1>2, <1>5, <2>2
    <2>4. off \in 1 .. L + 1 /\ r(off) # NoRule /\ rule = r(off)
      BY <1>1, <2>3
    <2>5. off # 0
      BY <2>4
    <2> HIDE DEF r
    <2> QED  BY <1>3, <2>4, <2>5
  <1> QED  BY <1>4, <1>5

\* The last slash of a path that is not empty is a place in it.
LEMMA SlashIn ==
    ASSUME NEW S, NEW path, NEW L \in Nat, IsText(path, S, L), L >= 1
    PROVE  LastSlash(path) \in Nat /\ LastSlash(path) >= 1 /\ LastSlash(path) <= L
  <1>1. path \in Seq(S) /\ L = Len(path)
    BY DEF IsText
  <1>2. LastSlash(path) \in Nat /\ LastSlash(path) >= 1 /\ (L >= 1 => LastSlash(path) <= L)
    BY <1>1, LastSlashIs
  <1> QED  BY <1>2

\* Under tries that hold a list of patterns every open is logged as it should be.
LEMMA OpenRight ==
    ASSUME NEW S, NEW o, NEW L \in Nat, OpenOf(o, S, L), NEW pats, NEW tr, Loaded(pats, tr, S)
    PROVE  CredRight(o, CredLogged(o, tr), pats)
  <1>1. PICK path \in Seq(S) : path = o.path /\ IsText(path, S, L)
    BY DEF OpenOf, IsText
  <1>2. Len(o.path) = L
    BY DEF OpenOf
  <1>3. PATH_BUF \in Nat
    BY CredSizesAssumption
  <1>4. PathLen(o) = IF L + 1 > PATH_BUF THEN 0 ELSE L + 1
    BY <1>2 DEF PathLen
  <1> DEFINE none == [rule |-> NoRule, off |-> 0]
  <1>5. CASE L >= PATH_BUF
    <2>1. PathLen(o) = 0
      BY <1>3, <1>4, <1>5
    <2>2. CredLogged(o, tr) = none
      BY <2>1 DEF CredLogged
    <2> QED  BY <1>2, <1>5, <2>2 DEF CredRight
  <1>6. CASE L < PATH_BUF /\ L = 0
    <2>1. PathLen(o) < 2
      BY <1>3, <1>4, <1>6
    <2>2. CredLogged(o, tr) = none
      BY <2>1 DEF CredLogged
    <2>3. DOMAIN o.path = {}
      <3>1. DOMAIN path = 1 .. L
        BY <1>1, <1>2, LenProperties
      <3> QED  BY <1>1, <1>6, <3>1
    <2>4. LastSlash(o.path) = 1
      <3>1. {i \in DOMAIN o.path : o.path[i] = Slash} \cup {1} = {1}
        BY <2>3
      <3>2. Max({1}) = 1
        BY MaxIs, SMTT(30)
      <3> QED  BY <3>1, <3>2 DEF LastSlash
    <2>5. ASSUME NEW k \in DOMAIN pats, NEW i \in 1 .. L + 1 PROVE ~Covers(pats[k], o.path, i)
      <3>1. i = 1
        BY <1>6
      <3>2. pats[k].kind \in CredKind
        BY DEF Loaded, PatternsOf
      <3>3. i # LastSlash(o.path) + 1
        BY <2>4, <3>1
      <3> QED  BY <2>3, <3>2, <3>3 DEF Covers, CredKind
    <2> QED  BY <1>2, <2>2, <2>5 DEF CredRight
  <1>7. CASE L < PATH_BUF /\ L >= 1
    <2>1. PathLen(o) = L + 1 /\ ~(L + 1 < 2)
      BY <1>3, <1>4, <1>7
    <2>2. PICK off : off = ScanOff(o, L + 1, tr.patterns)
      OBVIOUS
    <2>3. PICK rule : rule = Lookup(tr.patterns, ScanKey(o, L + 1, off))
      OBVIOUS
    <2>4. PICK name : name = NameLookup(path, tr.name_suffix)
      OBVIOUS
    <2>5. PICK a : a = LastSlash(path)
      OBVIOUS
    <2>6. a \in Nat
      BY <1>1, <1>7, <2>5, SlashIn
    <2>7. CredLogged(o, tr) = IF off # 0 THEN [rule |-> rule, off |-> off]
                              ELSE [rule |-> name, off |-> IF name = NoRule THEN 0 ELSE a + 1]
      BY <1>1, <2>1, <2>2, <2>3, <2>4, <2>5 DEF CredLogged
    <2>8. /\ off # 0 => rule \in DOMAIN pats /\ Covers(pats[rule], path, off)
          /\ off = 0 => \A k \in DOMAIN pats, i \in 1 .. L + 1 :
                           pats[k].kind # "NameSuffix" => ~Covers(pats[k], path, i)
      BY <1>1, <2>2, <2>3, OffsetIs
    <2>9. /\ name # NoRule => name \in DOMAIN pats /\ Covers(pats[name], path, a + 1)
          /\ name = NoRule => \A k \in DOMAIN pats :
                                 pats[k].kind = "NameSuffix" => ~Covers(pats[k], path, a + 1)
      <3>1. NUL \in S
        BY DEF OpenOf
      <3> QED  BY <1>1, <1>7, <2>4, <2>5, <2>6, <3>1, NameIs
    <2>10. \A k \in DOMAIN pats : \A i : Covers(pats[k], path, i) /\ pats[k].kind = "NameSuffix"
                                       => i = a + 1
      BY <2>5 DEF Covers
    <2>11. ASSUME NEW k \in DOMAIN pats, NEW i, Covers(pats[k], path, i)
           PROVE  i \in 1 .. L + 1
      <3>1. pats[k].kind \in CredKind
        BY DEF Loaded, PatternsOf
      <3>2. DOMAIN path = 1 .. L
        BY <1>1, <1>2, LenProperties
      <3>3. a >= 1 /\ a <= L
        BY <1>1, <1>7, <2>5, SlashIn
      <3>4. pats[k].kind = "NameSuffix" => i = a + 1
        BY <2>10, <2>11
      <3>5. pats[k].kind # "NameSuffix" => i \in 1 .. L
        BY <2>11, <3>1, <3>2 DEF Covers, CredKind
      <3> QED  BY <2>6, <3>3, <3>4, <3>5
    <2>12. ~(L >= PATH_BUF)
      BY <1>3, <1>7
    <2>13. CASE off # 0
      BY <1>1, <1>2, <2>7, <2>8, <2>11, <2>12, <2>13 DEF CredRight
    <2>14. CASE off = 0 /\ name # NoRule
      BY <1>1, <1>2, <2>7, <2>9, <2>11, <2>12, <2>14 DEF CredRight
    <2>15. CASE off = 0 /\ name = NoRule
      <3>1. CredLogged(o, tr) = none
        BY <2>7, <2>15
      <3>2. \A k \in DOMAIN pats, i \in 1 .. L + 1 : ~Covers(pats[k], path, i)
        BY <2>8, <2>9, <2>10, <2>15
      <3> QED  BY <1>1, <1>2, <3>1, <3>2 DEF CredRight
    <2> QED  BY <2>13, <2>14, <2>15
  <1> QED  BY <1>3, <1>5, <1>6, <1>7

-----------------------------------------------------------------------------
(***************************************************************************)
(* The types.                                                              *)
(***************************************************************************)

LEMMA InitTypeOK == Init => TypeOK
  <1> SUFFICES ASSUME Init PROVE TypeOK
    OBVIOUS
  <1>1. step \in 1 .. Len(Steps) + 1 /\ (phase = "serving" => step = Len(Steps) + 1)
    BY InitInv DEF Inv
  <1>2. ctxMap \in [Objects -> {NoMap} \cup Objects]
    BY DEF Init
  <1> QED  BY <1>1, <1>2 DEF Init, TypeOK, NoCall

LEMMA NextTypeOK == Inv /\ TypeOK /\ [Next]_vars => TypeOK'
  <1> SUFFICES ASSUME Inv, TypeOK, [Next]_vars PROVE TypeOK'
    OBVIOUS
  <1>1. Inv'
    BY NextInv
  <1>2. /\ (phase \in {"loading", "serving", "dropping", "down"})'
        /\ (step \in 1 .. Len(Steps) + 1)'
        /\ (phase = "serving" => step = Len(Steps) + 1)'
        /\ (tracked \subseteq Objects)'
    BY <1>1 DEF Inv, Objects
  <1>3. UNCHANGED <<patterns, rules>>
    BY DEF Next, Loading, Dropping, Load, LoadPattern, LoadRule, Attach, FillJmp, Bind, Leave,
           DropLink, DropObjects, Restart, Track, Call, Return, vars
  <1>4. Steps' = Steps
    BY <1>3, SameSteps
  <1>5. (ctxMap \in [Objects -> {NoMap} \cup Objects])'
    <2>1. CASE Load
      <3>1. "files" \in Objects
        BY DEF Objects
      <3> QED  BY <2>1, <3>1 DEF Load, TypeOK
    <2>2. CASE DropObjects
      BY <2>2 DEF DropObjects
    <2>3. CASE UNCHANGED ctxMap
      BY <2>3 DEF TypeOK
    <2> QED
      BY <2>1, <2>2, <2>3
         DEF Next, Loading, Dropping, LoadPattern, LoadRule, Attach, FillJmp, Bind, Leave,
             DropLink, Restart, Track, Call, Return, vars
  <1>6. (links \subseteq {Steps[i].of : i \in {k \in DOMAIN Steps : Steps[k].do = "attach"}})'
    <2>1. CASE Attach
      <3>1. step \in DOMAIN Steps /\ Steps[step].do = "attach"
        BY <2>1 DEF Attach, Take
      <3> QED  BY <1>4, <2>1, <3>1 DEF Attach, TypeOK
    <2>2. CASE DropLink
      BY <1>4, <2>2 DEF DropLink, TypeOK
    <2>3. CASE UNCHANGED links
      BY <1>4, <2>3 DEF TypeOK
    <2> QED
      BY <2>1, <2>2, <2>3
         DEF Next, Loading, Dropping, Load, LoadPattern, LoadRule, FillJmp, Bind, Leave,
             DropObjects, Restart, Track, Call, Return, vars
  <1>7. (jmp \subseteq {"qname", "answers"})'
    <2>1. CASE FillJmp
      <3>1. Steps[step] \in StepSet /\ Steps[step].do = "jmp"
        BY <2>1, TakeStep DEF FillJmp
      <3>2. Steps[step].of \in {"qname", "answers"}
        BY <3>1 DEF StepSet
      <3> QED  BY <2>1, <3>2 DEF FillJmp, TypeOK
    <2>2. CASE DropObjects
      BY <2>2 DEF DropObjects
    <2>3. CASE UNCHANGED jmp
      BY <2>3 DEF TypeOK
    <2> QED
      BY <2>1, <2>2, <2>3
         DEF Next, Loading, Dropping, Load, LoadPattern, LoadRule, Attach, Bind, Leave,
             DropLink, Restart, Track, Call, Return, vars
  <1>8. (call.kind \in {"none", "open", "query", "hello", "response", "remove"})'
    <2>1. ASSUME NEW c \in Calls, Call(c)
          PROVE  call'.kind \in {"none", "open", "query", "hello", "response", "remove"}
      <3>1. call'.kind = c.kind
        BY <2>1 DEF Call
      <3> QED  BY <3>1, CallsAssumption
    <2>2. CASE Return
      BY <2>2 DEF Return, NoCall
    <2>3. CASE UNCHANGED call
      BY <2>3 DEF TypeOK
    <2> QED
      BY <2>1, <2>2, <2>3
         DEF Next, Loading, Dropping, Load, LoadPattern, LoadRule, Attach, FillJmp, Bind, Leave,
             DropLink, DropObjects, Restart, Track, vars
  <1> QED  BY <1>2, <1>5, <1>6, <1>7, <1>8 DEF TypeOK

\* Recorder's variables keep their types: load() never runs past its last step, and what is
\* attached or put into the jump table is what a step of load() names.
THEOREM TypeCorrect == Spec => []TypeOK
  <1>1. Init => Inv /\ TypeOK
    BY InitInv, InitTypeOK
  <1>2. (Inv /\ TypeOK) /\ [Next]_vars => (Inv /\ TypeOK)'
    BY NextInv, NextTypeOK
  <1> QED  BY <1>1, <1>2, PTL DEF Spec

-----------------------------------------------------------------------------
(***************************************************************************)
(* Opens.  The tries hold nothing but patterns of the build, each under    *)
(* its own key, and load() refuses a pattern that has no room; so behind   *)
(* its last step they hold them all.  The program finds its task only      *)
(* through mon_files' map, which it has by then.                           *)
(***************************************************************************)
CredInv ==
    /\ \A k \in DOMAIN patterns : patterns[k].kind \in CredKind /\ Text(patterns[k].pat)
    /\ EntriesOf(tries.patterns, patterns, FALSE)
    /\ EntriesOf(tries.name_suffix, patterns, TRUE)
    /\ phase \in {"loading", "serving"} =>
          \A i \in 1 .. step - 1 : Steps[i].do = "pattern" => PatternOk(patterns[Steps[i].of])
    /\ CredExact

\* A key of its own for a pattern of the list.
LEMMA UpdateEntries ==
    ASSUME NEW t, NEW pats, NEW suffix \in BOOLEAN, EntriesOf(t, pats, suffix),
           NEW k \in DOMAIN pats, PatternOk(pats[k]), pats[k].kind = "NameSuffix" <=> suffix
    PROVE  EntriesOf(Update(t, PatternData(pats[k]), k), pats, suffix)
  <1> DEFINE e == PatternData(pats[k])
  <1>1. PICK u : u = Update(t, e, k)
    OBVIOUS
  <1>2. /\ DOMAIN u = DOMAIN t \cup {e}
        /\ \A d \in DOMAIN u : u[d] = IF d = e THEN k ELSE t[d]
    BY <1>1 DEF Update
  <1>3. ASSUME NEW d \in DOMAIN u
        PROVE  /\ u[d] \in DOMAIN pats
               /\ PatternOk(pats[u[d]]) /\ PatternData(pats[u[d]]) = d
               /\ pats[u[d]].kind = "NameSuffix" <=> suffix
    <2>1. CASE d = e
      BY <1>2, <2>1
    <2>2. CASE d # e
      <3>1. d \in DOMAIN t /\ u[d] = t[d]
        BY <1>2, <2>2
      <3> QED  BY <3>1 DEF EntriesOf
    <2> QED  BY <2>1, <2>2
  <1>4. EntriesOf(u, pats, suffix)
    BY <1>3 DEF EntriesOf
  <1> QED  BY <1>1, <1>4

\* When all steps of load() are done the tries hold the patterns.
LEMMA AllLoaded ==
    ASSUME Inv, CredInv, phase = "serving", NEW S,
           \A k \in DOMAIN patterns : patterns[k].pat \in Seq(S)
    PROVE  Loaded(patterns, tries, S)
  <1>1. DOMAIN Steps = 1 .. Len(Steps) /\ Len(Steps) \in Nat
    BY StepsSeq, LenProperties DEF Inv
  <1>2. step = Len(Steps) + 1
    BY DEF Inv
  <1>3. ASSUME NEW k \in DOMAIN patterns
        PROVE  /\ PatternOk(patterns[k])
               /\ PatternData(patterns[k]) \in DOMAIN (IF patterns[k].kind = "NameSuffix"
                                                       THEN tries.name_suffix ELSE tries.patterns)
    <2>0. Do("pattern", k) \in StepSet
      BY DEF StepSet, Do
    <2>1. PICK i \in DOMAIN Steps : Steps[i] = Do("pattern", k)
      BY <2>0, StepsSeq DEF Inv, Has
    <2>2. i \in 1 .. step - 1
      BY <1>1, <1>2
    <2>3. Done(Steps[i])
      BY <2>2 DEF Inv
    <2>4. Steps[i].do = "pattern" /\ Steps[i].of = k
      BY <2>1 DEF Do
    <2>5. PatternOk(patterns[k])
      BY <2>2, <2>4 DEF CredInv
    <2> QED  BY <2>3, <2>4, <2>5 DEF Done
  <1>4. PatternsOf(patterns, S)
    BY DEF PatternsOf, CredInv, Inv, BuildOK
  <1>5. AllIn(patterns, tries)
    BY <1>3 DEF AllIn
  <1> QED  BY <1>3, <1>4, <1>5 DEF Loaded, CredInv

\* The task of a call is tracked, and a hook that is attached finds it.
LEMMA CallLogged ==
    ASSUME Inv, NEW c \in Calls, Call(c), phase = "serving"
    PROVE  call'.logged = Logged(c) /\ Hooked(c)
  <1>1. tracked = {"files"}
    BY DEF Inv, Call
  <1>2. Hook(c.kind) \in Objects
    BY CallsAssumption DEF Hook, Objects
  <1>3. ctxMap[Hook(c.kind)] = "files"
    BY <1>2, OneMap
  <1> QED  BY <1>1, <1>3 DEF Call

\* The open of a tracked task.
LEMMA OpenCallRight ==
    ASSUME Inv, CredInv, NEW c \in Calls, Call(c), c.kind = "open", phase = "serving"
    PROVE  CredRight(c, call'.logged, patterns)
  <1>3. call'.logged = CredLogged(c, tries)
    BY CallLogged DEF Logged
  <1> DEFINE S == {NUL} \cup Range(c.path) \cup Range(c.stale)
                  \cup UNION {Range(patterns[k].pat) : k \in DOMAIN patterns}
  <1>4. /\ Text(c.path) /\ NUL \notin Range(c.path) /\ Text(c.stale)
    BY CallsAssumption
  <1>5. c.path \in Seq(S) /\ c.stale \in Seq(S) /\ NUL \in S
    <2>1. Range(c.path) \subseteq S /\ Range(c.stale) \subseteq S /\ NUL \in S
      OBVIOUS
    <2> HIDE DEF S
    <2> QED  BY <1>4, <2>1, SeqMonotonic DEF Text
  <1>6. ASSUME NEW k \in DOMAIN patterns PROVE patterns[k].pat \in Seq(S)
    <2>1. Range(patterns[k].pat) \subseteq S
      OBVIOUS
    <2>2. Text(patterns[k].pat)
      BY DEF CredInv
    <2> HIDE DEF S
    <2> QED  BY <2>1, <2>2, SeqMonotonic DEF Text
  <1> HIDE DEF S
  <1>7. PICK L \in Nat : L = Len(c.path) /\ DOMAIN c.path = 1 .. L
    BY <1>5, LenProperties
  <1>8. OpenOf(c, S, L)
    BY <1>4, <1>5, <1>7 DEF OpenOf, Range
  <1>9. Loaded(patterns, tries, S)
    BY <1>6, AllLoaded
  <1> QED  BY <1>3, <1>8, <1>9, OpenRight

LEMMA InitCred == Init => CredInv
  <1> SUFFICES ASSUME Init PROVE CredInv
    OBVIOUS
  <1>1. \A k \in DOMAIN patterns : patterns[k].kind \in CredKind /\ Text(patterns[k].pat)
    BY BuildsAssumption DEF Init
  <1>2. tries.patterns = Empty /\ tries.name_suffix = Empty /\ DOMAIN Empty = {}
    BY DEF Init, NoPatterns, Empty
  <1>3. call.kind # "open"
    BY DEF Init, NoCall
  <1>4. 1 .. step - 1 = {}
    BY DEF Init
  <1> QED  BY <1>1, <1>2, <1>3, <1>4 DEF CredInv, EntriesOf, CredExact

LEMMA NextCred == Inv /\ CredInv /\ [Next]_vars => CredInv'
  <1> SUFFICES ASSUME Inv, CredInv, [Next]_vars PROVE CredInv'
    OBVIOUS
  <1>1. UNCHANGED <<patterns, rules>>
    BY DEF Next, Loading, Dropping, Load, LoadPattern, LoadRule, Attach, FillJmp, Bind, Leave,
           DropLink, DropObjects, Restart, Track, Call, Return, vars
  <1>2. Steps' = Steps
    BY <1>1, SameSteps
  <1>3. (\A k \in DOMAIN patterns : patterns[k].kind \in CredKind /\ Text(patterns[k].pat))'
    BY <1>1 DEF CredInv
  <1>4. /\ EntriesOf(tries.patterns, patterns, FALSE)'
        /\ EntriesOf(tries.name_suffix, patterns, TRUE)'
    <2>1. CASE LoadPattern
      <3>1. PICK k : k = Steps[step].of
        OBVIOUS
      <3>2. k \in DOMAIN patterns
        <4>1. Steps[step] \in StepSet /\ Steps[step].do = "pattern"
          BY <2>1, TakeStep DEF LoadPattern
        <4> QED  BY <3>1, <4>1 DEF StepSet
      <3>3. PatternOk(patterns[k]) /\ tries' = InsertPattern(tries, patterns[k], k)
        BY <2>1, <3>1 DEF LoadPattern
      <3>4. tries = [patterns |-> tries.patterns, name_suffix |-> tries.name_suffix]
        BY DEF Inv
      <3>5. /\ EntriesOf(tries.patterns, patterns, FALSE)
            /\ EntriesOf(tries.name_suffix, patterns, TRUE)
        BY DEF CredInv
      <3>6. CASE patterns[k].kind = "NameSuffix"
        <4>1. PICK u : u = Update(tries.name_suffix, PatternData(patterns[k]), k)
          OBVIOUS
        <4>2. EntriesOf(u, patterns, TRUE)
          BY <3>2, <3>3, <3>5, <3>6, <4>1, UpdateEntries
        <4>3. tries' = [patterns |-> tries.patterns, name_suffix |-> u]
          BY <3>3, <3>4, <3>6, <4>1 DEF InsertPattern
        <4>4. tries'.patterns = tries.patterns /\ tries'.name_suffix = u
          BY <4>3
        <4> QED  BY <1>1, <3>5, <4>2, <4>4 DEF EntriesOf
      <3>7. CASE patterns[k].kind # "NameSuffix"
        <4>1. PICK u : u = Update(tries.patterns, PatternData(patterns[k]), k)
          OBVIOUS
        <4>2. EntriesOf(u, patterns, FALSE)
          BY <3>2, <3>3, <3>5, <3>7, <4>1, UpdateEntries
        <4>3. tries' = [patterns |-> u, name_suffix |-> tries.name_suffix]
          BY <3>3, <3>4, <3>7, <4>1 DEF InsertPattern
        <4>4. tries'.patterns = u /\ tries'.name_suffix = tries.name_suffix
          BY <4>3
        <4> QED  BY <1>1, <3>5, <4>2, <4>4 DEF EntriesOf
      <3> QED  BY <3>6, <3>7
    <2>2. CASE DropObjects
      <3>1. tries'.patterns = Empty /\ tries'.name_suffix = Empty /\ DOMAIN Empty = {}
        BY <2>2 DEF DropObjects, NoPatterns, Empty
      <3> QED  BY <3>1 DEF EntriesOf
    <2>3. CASE UNCHANGED tries
      BY <1>1, <2>3 DEF CredInv, EntriesOf
    <2> QED
      BY <2>1, <2>2, <2>3
         DEF Next, Loading, Dropping, Load, LoadRule, Attach, FillJmp, Bind, Leave,
             DropLink, Restart, Track, Call, Return, vars
  <1>5. ASSUME phase' \in {"loading", "serving"}, NEW i \in 1 .. step' - 1, Steps[i].do = "pattern"
        PROVE  PatternOk(patterns[Steps[i].of])
    <2>1. Len(Steps) \in Nat /\ step \in 1 .. Len(Steps) + 1
      BY StepsSeq, LenProperties DEF Inv
    <2>2. CASE Loading
      <3>1. phase = "loading" /\ (step' = step + 1 \/ step' = step)
        BY <2>2 DEF Loading, Load, LoadPattern, LoadRule, Attach, FillJmp, Bind, Take
      <3>2. CASE i \in 1 .. step - 1
        BY <1>5, <3>1, <3>2 DEF CredInv
      <3>3. CASE i = step
        <4>1. step' = step + 1 /\ ~Bind
          BY <2>1, <3>1, <3>3 DEF Bind
        <4>2. LoadPattern
          BY <1>5, <2>2, <3>3, <4>1 DEF Loading, Load, LoadRule, Attach, FillJmp, Take
        <4> QED  BY <3>3, <4>2 DEF LoadPattern
      <3> QED  BY <2>1, <3>1, <3>2, <3>3
    <2>3. CASE Restart
      <3>1. step' = 1
        BY <2>3 DEF Restart, Inv
      <3> QED  BY <3>1
    <2>4. CASE UNCHANGED <<phase, step>>
      BY <1>5, <2>4 DEF CredInv
    <2>5. CASE Leave \/ DropObjects
      BY <1>5, <2>5 DEF Leave, DropObjects
    <2> QED
      BY <2>2, <2>3, <2>4, <2>5 DEF Next, Dropping, DropLink, Track, Call, Return, vars
  <1>6. CredExact'
    <2>1. ASSUME NEW c \in Calls, Call(c) PROVE CredExact'
      <3>1. call'.kind = c.kind /\ call'.of = c /\ call'.served = (phase = "serving")
        BY <2>1 DEF Call
      <3>2. ASSUME c.kind = "open", phase = "serving"
            PROVE  CredRight(call'.of, call'.logged, patterns')
        BY <1>1, <2>1, <3>1, <3>2, OpenCallRight
      <3> QED  BY <3>1, <3>2 DEF CredExact
    <2>2. CASE Return
      BY <2>2 DEF Return, NoCall, CredExact
    <2>3. CASE UNCHANGED call
      BY <1>1, <2>3 DEF CredInv, CredExact
    <2> QED
      BY <2>1, <2>2, <2>3
         DEF Next, Loading, Dropping, Load, LoadPattern, LoadRule, Attach, FillJmp, Bind, Leave,
             DropLink, DropObjects, Restart, Track, vars
  <1>7. (phase \in {"loading", "serving"} =>
            \A i \in 1 .. step - 1 : Steps[i].do = "pattern" => PatternOk(patterns[Steps[i].of]))'
    BY <1>1, <1>2, <1>5 DEF PatternOk
  <1> HIDE DEF CredInv
  <1> QED  BY <1>3, <1>4, <1>6, <1>7 DEF CredInv

\* Whatever patterns the daemon is built with and whatever path a tracked task opens: a path that
\* fits the buffer is logged exactly when a pattern covers it, with a pattern that does and the
\* place where it stands; bytes left behind the path by an earlier one make no difference.
THEOREM CredCorrect == Spec => []CredExact
  <1>1. Init => Inv /\ CredInv
    BY InitInv, InitCred
  <1>2. (Inv /\ CredInv) /\ [Next]_vars => (Inv /\ CredInv)'
    BY NextInv, NextCred
  <1>3. CredInv => CredExact
    BY DEF CredInv
  <1> QED  BY <1>1, <1>2, <1>3, PTL DEF Spec
=============================================================================
