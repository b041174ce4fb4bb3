------------------------------- MODULE LpmTrie -------------------------------
(***************************************************************************)
(* The kernel's BPF_MAP_TYPE_LPM_TRIE, which mon_file2 and mon_dns match   *)
(* with.  It is the kernel's and not this repository's: all that the       *)
(* programs use of it is here.  A trie maps a sequence of bytes (data, cut *)
(* to its prefixlen) to a rule; keys are whole numbers of bytes.           *)
(***************************************************************************)
EXTENDS Naturals, SequencesExt

NoRule == 0                     \* a lookup that finds nothing; rules are numbered from 1

Empty == <<>>                   \* the map as created: no entry

\* bpf_map_update_elem with BPF_ANY: a second entry for a key replaces the first.
Update(trie, data, rule) ==
    [d \in DOMAIN trie \cup {data} |-> IF d = data THEN rule ELSE trie[d]]

\* bpf_map_lookup_elem: of the entries that are a prefix of the key, the longest.
Lookup(trie, key) ==
    LET hits == {d \in DOMAIN trie : IsPrefix(d, key)}
    IN  IF hits = {} THEN NoRule
        ELSE trie[CHOOSE d \in hits : \A e \in hits : Len(e) <= Len(d)]
=============================================================================
