------------------------------ MODULE CredMatch ------------------------------
(***************************************************************************)
(* The credential-file matcher: mon_file2.bpf.c and the part of bpf.rs     *)
(* that fills its tries.  A path is a sequence of characters; a pattern is *)
(* [kind, pat].  Sizes are parameters, small in the runs.                  *)
(*                                                                         *)
(* An open is [path, stale]: stale is what bpf_d_path leaves in the        *)
(* scratch buffer behind the path's NUL, bytes of an earlier path.         *)
(***************************************************************************)
EXTENDS LpmTrie, FiniteSetsExt

CONSTANTS
    PATH_BUF,           \* bytes of the scratch path
    MAX_PAT,            \* longest '/'-anchored pattern, its NUL included
    NAME_MAX_REV,       \* longest name suffix
    CRED_RULE_NAME      \* room for the pattern as written, its NUL included

ASSUME CredSizesAssumption ==
    PATH_BUF \in Nat /\ MAX_PAT \in Nat /\ NAME_MAX_REV \in Nat /\ CRED_RULE_NAME \in Nat

Slash == "/"
NUL == "NUL"

CredKind == {"Tail", "Substr", "NameSuffix"}
Text(s) == s \in Seq(Range(s))

-----------------------------------------------------------------------------
\* The daemon's side.

\* load_cred_patterns: what it bails out on.
PatternOk(p) ==
    /\ Len(p.pat) \in 1 .. CRED_RULE_NAME - 1
    /\ NUL \notin Range(p.pat)
    /\ IF p.kind = "NameSuffix"
       THEN Slash \notin Range(p.pat) /\ Len(p.pat) <= NAME_MAX_REV
       ELSE p.pat[1] = Slash /\ Len(p.pat) + (IF p.kind = "Tail" THEN 1 ELSE 0) <= MAX_PAT

\* The trie entry of a pattern: a tail gets its NUL, a name suffix is reversed.
PatternData(p) ==
    CASE p.kind = "Tail" -> Append(p.pat, NUL)
      [] p.kind = "Substr" -> p.pat
      [] p.kind = "NameSuffix" -> Reverse(p.pat)

NoPatterns == [patterns |-> Empty, name_suffix |-> Empty]

\* map.update of the pattern numbered id.
InsertPattern(tries, p, id) ==
    IF p.kind = "NameSuffix"
    THEN [tries EXCEPT !.name_suffix = Update(@, PatternData(p), id)]
    ELSE [tries EXCEPT !.patterns = Update(@, PatternData(p), id)]

-----------------------------------------------------------------------------
\* The hook's side.

Bytes(open) == open.path \o <<NUL>> \o open.stale

\* bpf_d_path: the length with the NUL, 0 for a path that does not fit.
PathLen(open) == IF Len(open.path) + 1 > PATH_BUF THEN 0 ELSE Len(open.path) + 1

\* A bug: len is taken without the NUL.
ScanKeyShort(open, len, i) ==
    SubSeq(Bytes(open), i, i + Min({len - i, MAX_PAT}) - 1)

\* scan_cb's key at offset i (from 1): it stops at the path's NUL.
ScanKey(open, len, i) ==
    SubSeq(Bytes(open), i, i + Min({len - i + 1, MAX_PAT}) - 1)

\* bpf_loop of scan_cb: the offset of the first '/' from which a pattern matches, or 0.
ScanOff(open, len, trie) ==
    LET matches == {i \in 1 .. len :
            Bytes(open)[i] = Slash /\ Lookup(trie, ScanKey(open, len, i)) # NoRule}
    IN  IF matches = {} THEN 0 ELSE Min(matches)

\* name_lookup: the last component backwards, cut to what a suffix can cover.
LastSlash(path) == Max({i \in DOMAIN path : path[i] = Slash} \cup {1})

NameKey(path) ==
    LET nlen == Len(path) - LastSlash(path)
    IN  Reverse(SubSeq(path, Len(path) - Min({nlen, NAME_MAX_REV}) + 1, Len(path)))

NameLookup(path, trie) ==
    IF LastSlash(path) = Len(path) THEN NoRule ELSE Lookup(trie, NameKey(path))

\* mon_file2_open: the rule it logs, and the offset the rule's text is at.
CredLogged(open, tries) ==
    LET len  == PathLen(open)
        off  == ScanOff(open, len, tries.patterns)
        rule == NameLookup(open.path, tries.name_suffix)
    IN  IF len < 2 THEN [rule |-> NoRule, off |-> 0]
        ELSE IF off # 0
        THEN [rule |-> Lookup(tries.patterns, ScanKey(open, len, off)), off |-> off]
        ELSE [rule |-> rule, off |-> IF rule = NoRule THEN 0 ELSE LastSlash(open.path) + 1]

-----------------------------------------------------------------------------
\* What a pattern means: the comments on CredKind (bpf.rs).

TextAt(pat, path, i) == IsPrefix(pat, SubSeq(path, i, Len(path)))

\* Pattern p covers the path from offset off on.
Covers(p, path, off) ==
    CASE p.kind = "Tail" -> off \in DOMAIN path /\ p.pat = SubSeq(path, off, Len(path))
      [] p.kind = "Substr" -> off \in DOMAIN path /\ TextAt(p.pat, path, off)
      [] p.kind = "NameSuffix" ->
            off = LastSlash(path) + 1 /\ IsSuffix(p.pat, SubSeq(path, off, Len(path)))

\* What the open of a path that fits the buffer must log of a list of patterns: nothing if
\* none covers it, and else one that does, with the place.
CredRight(open, logged, patterns) ==
    IF Len(open.path) >= PATH_BUF \/ \A i \in DOMAIN patterns, k \in 1 .. Len(open.path) + 1 :
                                        ~Covers(patterns[i], open.path, k)
    THEN logged = [rule |-> NoRule, off |-> 0]
    ELSE logged.rule \in DOMAIN patterns /\ Covers(patterns[logged.rule], open.path, logged.off)
=============================================================================
