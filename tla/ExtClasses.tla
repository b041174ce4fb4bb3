------------------------------ MODULE ExtClasses ------------------------------
(***************************************************************************)
(* From a file's extension to its nameclass: the daemon reads the listing  *)
(* of ext_classes.json into a sorted table (mon/src/bpf.rs), freezes it in *)
(* the program's read-only data, and mon_files.bpf.c looks extensions up   *)
(* in it by a binary search of a fixed number of branch-free rounds.       *)
(*                                                                         *)
(* An extension is the sequence of its characters, the dot included.  The  *)
(* characters are ASCII codes; a few stand for each kind that matters.     *)
(* The eight characters the table keeps make one word whose order is their *)
(* bytewise order.                                                         *)
(***************************************************************************)
EXTENDS Integers, Sequences

CONSTANTS
    Listings,  \* contents of ext_classes.json, by number: sequences of entries
    Tables,    \* tables the sort may arrange them into, by number; 0 is the blank one
    Exts,      \* extensions to classify
    Other      \* AIDR_NC_OTHER

MaxEntries == 512    \* AIDR_EXT_CLASSES_MAX
Rounds == 10
Index == 0 .. MaxEntries - 1

Dot == 46
Digits == {48}
Upper == {65, 66}
Lower == {97, 98}
Control == {16}      \* a control character that OR-ing 0x20 turns into a digit
Char == Digits \cup Upper \cup Lower \cup Control

Classes == {"SRC", "CFG"}
Listed == [ext : Seq(Char), nc : Classes]
Entry == [word : Int, nc : Classes \cup {Other}]
Blank == [word |-> 0, nc |-> Other]

ASSUME ListingsAssumption == \A f \in DOMAIN Listings : Listings[f] \in Seq(Listed)
ASSUME TablesAssumption == \A t \in DOMAIN Tables : Tables[t] \in [Index -> Entry]
ASSUME BlankAssumption == 0 \in DOMAIN Tables /\ Tables[0] = [i \in Index |-> Blank]
ASSUME ExtsAssumption == \A e \in Exts : e = <<>> \/ (e \in Seq(Char \cup {Dot}) /\ Tail(e) \in Seq(Char))
ASSUME OtherAssumption == Other \notin Classes

Files == DOMAIN Listings
Orders == DOMAIN Tables

VARIABLES
    phase,    \* "starting", "refused", "ready", "searching", "answered"
    file,     \* the listing on disk
    table,    \* ext_classes
    count,    \* ext_classes_n
    ext,      \* the extension being classified
    key,      \* its word
    n, base, round,  \* of the search: entries left, last entry <= key, round
    result    \* its class

vars == <<phase, file, table, count, ext, key, n, base, round, result>>

-----------------------------------------------------------------------------
\* Words: the ranks of up to eight characters, the first the most significant.

Rank == [c \in Digits \cup Lower |-> CASE c = 48 -> 1 [] c = 97 -> 2 [] OTHER -> 3]

\* OR 0x20.
Or20(c) == IF c \in Upper \cup Control THEN c + 32 ELSE c

\* to_ascii_lowercase.
Lowercase(c) == IF c \in Upper THEN c + 32 ELSE c

Byte(s, i) == IF i <= Len(s) THEN Rank[Or20(s[i])] ELSE 0

Word(s) ==
    16384 * Byte(s, 1) + 4096 * Byte(s, 2) + 1024 * Byte(s, 3) + 256 * Byte(s, 4)
    + 64 * Byte(s, 5) + 16 * Byte(s, 6) + 4 * Byte(s, 7) + Byte(s, 8)

-----------------------------------------------------------------------------
\* read_ext_classes and load.

\* One to eight letters or digits; none listed twice; all of them fit.
Accepts(l) ==
    /\ \A i \in DOMAIN l :
          /\ Len(l[i].ext) \in 1 .. 8
          /\ \A k \in DOMAIN l[i].ext : Lowercase(l[i].ext[k]) \in Lower \cup Digits
    /\ \A i, j \in DOMAIN l : Word(l[i].ext) = Word(l[j].ext) => i = j
    /\ Len(l) <= MaxEntries

\* t is the listing, sorted; the entries beyond it keep their zeros.
Arranges(t, l) ==
    /\ \A i, j \in 0 .. Len(l) - 1 : i < j => t[i].word < t[j].word
    /\ {t[i] : i \in 0 .. Len(l) - 1} = {[word |-> Word(l[i].ext), nc |-> l[i].nc] : i \in DOMAIN l}
    /\ \A i \in Len(l) .. MaxEntries - 1 : t[i] = Blank

\* The daemon does not start on a listing it does not accept.
Load ==
    LET l == Listings[file] IN
    /\ phase = "starting"
    /\ IF Accepts(l)
       THEN \E t \in {t \in Orders : Arranges(Tables[t], l)} :
               phase' = "ready" /\ table' = t /\ count' = Len(l)
       ELSE phase' = "refused" /\ UNCHANGED <<table, count>>
    /\ UNCHANGED <<file, ext, key, n, base, round, result>>

-----------------------------------------------------------------------------
\* A bug: an extension of eight characters is too long already.
ClassifyShort(e) ==
    LET none == Len(e) < 2 \/ Len(e) > 8 \/ count = 0 \/ count > MaxEntries IN
    /\ phase = "ready"
    /\ ext' = e
    /\ IF none
       THEN /\ phase' = "answered" /\ result' = Other
            /\ UNCHANGED <<key, n, base, round>>
       ELSE /\ phase' = "searching"
            /\ key' = Word(Tail(e))
            /\ n' = count /\ base' = 0 /\ round' = 0
            /\ UNCHANGED result
    /\ UNCHANGED <<file, table, count>>

\* nameclass_of: no extension, an empty one and one of more than eight
\* characters are OTHER; the others are lowercased and looked up.
Classify(e) ==
    LET none == e = <<>> \/ Len(e) = 1 \/ Len(e) > 9 \/ count = 0 \/ count > MaxEntries IN
    /\ phase = "ready"
    /\ ext' = e
    /\ IF none
       THEN /\ phase' = "answered" /\ result' = Other
            /\ UNCHANGED <<key, n, base, round>>
       ELSE /\ phase' = "searching"
            /\ key' = Word(Tail(e))
            /\ n' = count /\ base' = 0 /\ round' = 0
            /\ UNCHANGED result
    /\ UNCHANGED <<file, table, count>>

\* A bug: the middle entry is left out of the entries that remain.
HalveBelow ==
    LET half == n \div 2
        k == Tables[table][(base + half) % MaxEntries].word
    IN
    /\ phase = "searching" /\ round < Rounds
    /\ base' = IF key < k THEN base ELSE base + half
    /\ n' = n - half - 1
    /\ round' = round + 1
    /\ UNCHANGED <<phase, file, table, count, ext, key, result>>

\* A bug: base stays below the middle entry when that one has the key.
HalveAtMost ==
    LET half == n \div 2
        k == Tables[table][(base + half) % MaxEntries].word
    IN
    /\ phase = "searching" /\ round < Rounds
    /\ base' = IF key <= k THEN base ELSE base + half
    /\ n' = n - half
    /\ round' = round + 1
    /\ UNCHANGED <<phase, file, table, count, ext, key, result>>

\* One round of ext_class_find: halve n, move base up when key is not below
\* the middle entry.
Halve ==
    LET half == n \div 2
        k == Tables[table][(base + half) % MaxEntries].word
    IN
    /\ phase = "searching" /\ round < Rounds
    /\ base' = IF key < k THEN base ELSE base + half
    /\ n' = n - half
    /\ round' = round + 1
    /\ UNCHANGED <<phase, file, table, count, ext, key, result>>

\* The end of ext_class_find.
Answer ==
    LET found == Tables[table][base % MaxEntries] IN
    /\ phase = "searching" /\ round = Rounds
    /\ result' = IF found.word = key THEN found.nc ELSE Other
    /\ phase' = "answered"
    /\ UNCHANGED <<file, table, count, ext, key, n, base, round>>

\* mon_files_open and log_remove use the class at once.
Use ==
    /\ phase = "answered"
    /\ phase' = "ready"
    /\ ext' = <<>> /\ key' = 0 /\ n' = 0 /\ base' = 0 /\ round' = 0 /\ result' = Other
    /\ UNCHANGED <<file, table, count>>

Init ==
    /\ phase = "starting"
    /\ file \in Files /\ table = 0 /\ count = 0
    /\ ext = <<>> /\ key = 0 /\ result = Other
    /\ n = 0 /\ base = 0 /\ round = 0

Next ==
    \/ Load
    \/ \E e \in Exts : Classify(e)
    \/ Halve
    \/ Answer
    \/ Use

Spec == Init /\ [][Next]_vars

-----------------------------------------------------------------------------
\* Properties.

TypeOK ==
    /\ phase \in {"starting", "refused", "ready", "searching", "answered"}
    /\ file \in Files /\ table \in Orders
    /\ count \in 0 .. MaxEntries
    /\ key \in Int
    /\ n \in 0 .. MaxEntries /\ base \in Index /\ round \in 0 .. Rounds
    /\ result \in Classes \cup {Other}

\* Ten rounds are enough for every table that fits: when the search answers,
\* one entry is left, and if any entry of the table has the key it is that
\* one; nothing beyond the loaded entries was ever in play
\* (mon_files.bpf.c:303-304).
SearchExact ==
    phase = "searching" /\ round = Rounds =>
        /\ n = 1 /\ base < count
        /\ \A j \in 0 .. count - 1 : Tables[table][j].word = key => j = base

\* The loaded entry for an extension, as the author of the listing means it:
\* equal up to letter case.
Fold(s) == [i \in DOMAIN s |-> Lowercase(s[i])]
ListedAs(e, nc) ==
    \E i \in DOMAIN Listings[file] :
        Fold(Listings[file][i].ext) = Fold(Tail(e)) /\ Listings[file][i].nc = nc

\* An extension of letters and digits gets exactly the class it is listed
\* under, whatever its length, its case and its place in the table, and OTHER
\* if it is not listed (bpf.rs:73-77, mon_files.bpf.c:324-326).
ClassListed ==
    phase = "answered" /\ (\A i \in 2 .. Len(ext) : ext[i] \notin Control) =>
        IF Len(ext) > 1 /\ \E nc \in Classes : ListedAs(ext, nc)
        THEN ListedAs(ext, result) ELSE result = Other
=============================================================================
