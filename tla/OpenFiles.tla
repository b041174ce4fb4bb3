------------------------------ MODULE OpenFiles ------------------------------
(***************************************************************************)
(* The open_files map of bpf/mon_files.bpf.c: a tracked task's open parks  *)
(* the file's description, later reads and writes log their verb once.     *)
(*                                                                         *)
(* The hooks run on every CPU.  note_access looks the entry up and loads   *)
(* its seen bits, then stores them back and logs, with no lock in between, *)
(* so the two halves are separate actions.  The map is an LRU hash: when   *)
(* it is full an insert recycles the element of another file, under the    *)
(* feet of a CPU that holds a pointer to it.                               *)
(*                                                                         *)
(* Paths, roots and extensions only matter through what quiet_mask makes   *)
(* of them: the verbs that are dropped for this file.                      *)
(***************************************************************************)
EXTENDS Naturals

CONSTANTS
    Files,     \* addresses of struct file, the keys of the map
    NoFile,    \* the key of an element that is in no file's use
    Slots,     \* elements of the map: max_entries
    Cpus,
    NoOp,      \* no note_access under way
    MaxLog     \* log lines are counted up to this bound

ASSUME NoFileAssumption == NoFile \notin Files
ASSUME MaxLogAssumption == MaxLog \in Nat \ {0}

VARIABLES
    opened,    \* what became of the open of the file: parked, or left out
    elem,      \* the elements: key and seen bits
    op,        \* note_access between its load and its store, per CPU
    \* history of the current open of a file
    preset,    \* bits set when it was parked
    count,     \* R and W lines logged
    covered,   \* verbs another line stood in for
    done,      \* verbs that tracked tasks have completed
    spoiled    \* files whose element was recycled, or handed over while in use

mapVars == <<opened, elem, op>>
histVars == <<preset, count, covered, done, spoiled>>
vars == <<mapVars, histVars>>

Bits == {"R", "W"}

\* What quiet_mask may return: nothing, the reads, or both.
Quiet == {{}, {"R"}, Bits}

\* The accesses the hooks report: the verb's bit and the verbs it covers.
\* Reads, private or read-only mappings; writes and truncates; shared
\* writable mappings.
Accesses == {[bit |-> "R", covers |-> {}], [bit |-> "W", covers |-> {}],
             [bit |-> "W", covers |-> {"R"}]}

Unused == [key |-> NoFile, seen |-> {}]

Op == [file : Files, slot : Slots, saw : SUBSET Bits, access : Accesses]

TypeOK ==
    /\ opened \in [Files -> {"closed", "parked", "plain"}]
    /\ elem \in [Slots -> [key : Files \cup {NoFile}, seen : SUBSET Bits]]
    /\ op \in [Cpus -> Op \cup {NoOp}]
    /\ preset \in [Files -> SUBSET Bits]
    /\ count \in [Files -> [Bits -> 0 .. MaxLog]]
    /\ covered \in [Files -> SUBSET Bits]
    /\ done \in [Files -> SUBSET Bits]
    /\ spoiled \subseteq Files
    /\ \A s, t \in Slots : elem[s].key = elem[t].key /\ elem[s].key # NoFile => s = t

Init ==
    /\ opened = [f \in Files |-> "closed"]
    /\ elem = [s \in Slots |-> Unused]
    /\ op = [c \in Cpus |-> NoOp]
    /\ preset = [f \in Files |-> {}]
    /\ count = [f \in Files |-> [v \in Bits |-> 0]]
    /\ covered = [f \in Files |-> {}]
    /\ done = [f \in Files |-> {}]
    /\ spoiled = {}

SlotsOf(f) == {s \in Slots : elem[s].key = f}

\* The element an insert of f goes to: its own, else an unused one, else one
\* the LRU takes from another file.
Target(f) ==
    IF SlotsOf(f) # {} THEN SlotsOf(f)
    ELSE IF SlotsOf(NoFile) # {} THEN SlotsOf(NoFile) ELSE Slots

Held(s) == \E c \in Cpus : op[c] # NoOp /\ op[c].slot = s

\* A bug: a create presets the C bit as well.
OpenParkC(f, quiet, created) ==
    LET bits == IF created THEN Bits \cup {"C"} ELSE quiet IN
    /\ opened[f] = "closed"
    /\ \E s \in Target(f) :
          /\ elem' = [elem EXCEPT ![s] = [key |-> f, seen |-> bits]]
          /\ spoiled' = spoiled \cup ({elem[s].key} \ {NoFile, f})
                                \cup (IF Held(s) THEN {f} ELSE {})
    /\ opened' = [opened EXCEPT ![f] = "parked"]
    /\ preset' = [preset EXCEPT ![f] = bits]
    /\ UNCHANGED <<op, count, covered, done>>

\* mon_files_open by a tracked task, on a file that is not a directory and
\* whose path bpf_d_path could write: what quiet_mask drops is preset, a
\* create is logged and stands in for reads and writes.
OpenPark(f, quiet, created) ==
    LET bits == IF created /\ "W" \notin quiet THEN Bits ELSE quiet IN
    /\ opened[f] = "closed"
    /\ \E s \in Target(f) :
          /\ elem' = [elem EXCEPT ![s] = [key |-> f, seen |-> bits]]
          /\ spoiled' = spoiled \cup ({elem[s].key} \ {NoFile, f})
                                \cup (IF Held(s) THEN {f} ELSE {})
    /\ opened' = [opened EXCEPT ![f] = "parked"]
    /\ preset' = [preset EXCEPT ![f] = bits]
    /\ UNCHANGED <<op, count, covered, done>>

\* An open by an untracked task, of a directory, or with a path too long: the
\* hook leaves the map alone.
OpenPlain(f) ==
    /\ opened[f] = "closed"
    /\ opened' = [opened EXCEPT ![f] = "plain"]
    /\ UNCHANGED <<elem, op, histVars>>

\* A bug: any seen bit ends the access, not only the verb's own.
AccessLoadAny(c, f, a) ==
    /\ op[c] = NoOp /\ opened[f] # "closed"
    /\ \/ \E s \in SlotsOf(f) :
             IF elem[s].seen # {}
             THEN /\ done' = [done EXCEPT ![f] = @ \cup {a.bit}]
                  /\ UNCHANGED op
             ELSE /\ op' = [op EXCEPT ![c] = [file |-> f, slot |-> s, saw |-> elem[s].seen,
                                              access |-> a]]
                  /\ UNCHANGED done
       \/ SlotsOf(f) = {} /\ UNCHANGED <<op, done>>
    /\ UNCHANGED <<opened, elem, preset, count, covered, spoiled>>

\* note_access up to the test of the seen bits.  An access through a file that
\* has no entry, or whose verb is there already, ends here.
AccessLoad(c, f, a) ==
    /\ op[c] = NoOp /\ opened[f] # "closed"
    /\ \/ \E s \in SlotsOf(f) :
             IF a.bit \in elem[s].seen
             THEN /\ done' = [done EXCEPT ![f] = @ \cup {a.bit}]
                  /\ UNCHANGED op
             ELSE /\ op' = [op EXCEPT ![c] = [file |-> f, slot |-> s, saw |-> elem[s].seen,
                                              access |-> a]]
                  /\ UNCHANGED done
       \/ SlotsOf(f) = {} /\ UNCHANGED <<op, done>>
    /\ UNCHANGED <<opened, elem, preset, count, covered, spoiled>>

\* A bug: the store replaces the bits, "=" for "|=".
AccessStoreOver(c) ==
    LET o == op[c]
        owner == IF elem[o.slot].key = NoFile THEN o.file ELSE elem[o.slot].key
    IN
    /\ o # NoOp
    /\ elem' = [elem EXCEPT ![o.slot].seen = {o.access.bit} \cup o.access.covers]
    /\ count' = [count EXCEPT ![owner][o.access.bit] = IF @ < MaxLog THEN @ + 1 ELSE @]
    /\ covered' = [covered EXCEPT ![owner] = @ \cup o.access.covers]
    /\ done' = [done EXCEPT ![o.file] = @ \cup {o.access.bit}]
    /\ op' = [op EXCEPT ![c] = NoOp]
    /\ UNCHANGED <<opened, preset, spoiled>>

\* The rest of note_access: store the bits loaded and the new ones, and log
\* whatever description the element now holds.
AccessStore(c) ==
    LET o == op[c]
        owner == IF elem[o.slot].key = NoFile THEN o.file ELSE elem[o.slot].key
    IN
    /\ o # NoOp
    /\ elem' = [elem EXCEPT ![o.slot].seen = o.saw \cup {o.access.bit} \cup o.access.covers]
    /\ count' = [count EXCEPT ![owner][o.access.bit] = IF @ < MaxLog THEN @ + 1 ELSE @]
    /\ covered' = [covered EXCEPT ![owner] = @ \cup o.access.covers]
    /\ done' = [done EXCEPT ![o.file] = @ \cup {o.access.bit}]
    /\ op' = [op EXCEPT ![c] = NoOp]
    /\ UNCHANGED <<opened, preset, spoiled>>

\* A bug: the entry is not deleted.
FileFreeKeeping(f) ==
    /\ opened[f] # "closed"
    /\ \A c \in Cpus : op[c] # NoOp => op[c].file # f
    /\ opened' = [opened EXCEPT ![f] = "closed"]
    /\ preset' = [preset EXCEPT ![f] = {}]
    /\ count' = [count EXCEPT ![f] = [v \in Bits |-> 0]]
    /\ covered' = [covered EXCEPT ![f] = {}]
    /\ done' = [done EXCEPT ![f] = {}]
    /\ spoiled' = spoiled \ {f}
    /\ UNCHANGED <<elem, op>>

\* mon_files_free, at the last reference: no access of the file is under way.
FileFree(f) ==
    /\ opened[f] # "closed"
    /\ \A c \in Cpus : op[c] # NoOp => op[c].file # f
    /\ opened' = [opened EXCEPT ![f] = "closed"]
    /\ elem' = [s \in Slots |-> IF elem[s].key = f THEN Unused ELSE elem[s]]
    /\ preset' = [preset EXCEPT ![f] = {}]
    /\ count' = [count EXCEPT ![f] = [v \in Bits |-> 0]]
    /\ covered' = [covered EXCEPT ![f] = {}]
    /\ done' = [done EXCEPT ![f] = {}]
    /\ spoiled' = spoiled \ {f}
    /\ UNCHANGED op

Next ==
    \/ \E f \in Files, quiet \in Quiet, created \in BOOLEAN : OpenPark(f, quiet, created)
    \/ \E f \in Files : OpenPlain(f)
    \/ \E c \in Cpus, f \in Files, a \in Accesses : AccessLoad(c, f, a)
    \/ \E c \in Cpus : AccessStore(c)
    \/ \E f \in Files : FileFree(f)

Spec == Init /\ [][Next]_vars

-----------------------------------------------------------------------------
\* Properties.  All but the second are about files that the LRU left alone.

Kept(f) == opened[f] = "parked" /\ f \notin spoiled

\* No verb is lost: what tracked tasks did through a parked file was logged,
\* or a line that stands in for it was, or it is a verb dropped for this path
\* (mon_files.bpf.c:60-67, 396-409), whatever the CPUs do to the seen bits.
NoSilentVerb ==
    \A f \in Files : Kept(f) =>
        done[f] \subseteq preset[f] \cup covered[f] \cup {v \in Bits : count[f][v] > 0}

\* An entry belongs to the open of the file it is found for, not to an
\* earlier file at the same address (mon_files.bpf.c:122-123, 867-877).
EntryOfThisOpen == \A s \in Slots : elem[s].key # NoFile => opened[elem[s].key] = "parked"

\* A verb that was dropped or covered by the create when the file was opened
\* is never logged: no racing store can clear its bit.
PresetNeverLogged ==
    \A f \in Files : Kept(f) => \A v \in preset[f] : count[f][v] = 0

\* Two CPUs racing on the same file can at worst log it twice
\* (mon_files.bpf.c:623-624).
LoggedAtMostTwice == \A f \in Files, v \in Bits : Kept(f) => count[f][v] <= 2
=============================================================================
