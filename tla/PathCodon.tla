------------------------------ MODULE PathCodon ------------------------------
(***************************************************************************)
(* Root, depth and extension of a file, and whether it is kept out of the  *)
(* log: mon_files.bpf.c computes them once from the text of the path, when *)
(* a file is opened (path_scan, quiet_mask), and once from its dentries,   *)
(* when it is removed (dentry_depth, remove_quiet), where no path is at    *)
(* hand.  Only an open knows of the workspace (ws_apply).                  *)
(*                                                                         *)
(* A component is [name, len, ext, dot, stem]: its letters, the extension  *)
(* from its last '.' on, how many characters those are (0: no '.'), and    *)
(* what a prefix rule knows it by.  A place is [comps, mounts, root]: the  *)
(* components from the namespace's root down, the levels that are the root *)
(* of a mount, and the level of the task's root, or Elsewhere.  A          *)
(* workspace is the components of its directory, <<>> when none is learned *)
(* (Workspace says how it is).                                             *)
(***************************************************************************)
EXTENDS Integers, SequencesExt, FiniteSetsExt, Roots

CONSTANTS
    PATH_MAX,           \* AIDR_PATH_MAX: bytes of a path, its NUL included
    WALK_MAX,           \* AIDR_WALK_MAX: rounds of the dentry walk
    USER_MAX            \* longest user name in_home_cache looks past (57)

ASSUME PathSizesAssumption == PATH_MAX \in Nat /\ WALK_MAX \in Nat /\ USER_MAX \in Nat

Elsewhere == -1                 \* the task's root is not above the file
Dropped == <<>>                 \* no line

\* A place a file can be at.
IsPlace(place) ==
    /\ place.comps \in Seq(Range(place.comps)) /\ place.comps # <<>>
    /\ \A c \in Range(place.comps) : c.len \in Nat \ {0} /\ c.dot \in 0 .. c.len
    /\ place.mounts \subseteq DOMAIN place.comps
    /\ place.root \in {Elsewhere, 0} \cup DOMAIN place.comps

PathOf(place) ==
    IF place.root = Elsewhere THEN place.comps
    ELSE SubSeq(place.comps, place.root + 1, Len(place.comps))

Name(path, i) == IF i \in DOMAIN path THEN path[i].name ELSE ""

Chars(path) == FoldLeft(LAMBDA n, c : n + 1 + c.len, 0, path)

\* An extension is looked for in the last 10 characters, from index lo on.
ExtSeen(c, chars, lo) ==
    IF c.dot \in 1 .. 10 /\ (chars - c.dot >= lo \/ c.dot = 1) THEN c.ext ELSE ""

-----------------------------------------------------------------------------
\* An open.

\* 1 + path_scan(path, len, 4): the '/' below index 4 are taken to be the leading one.
ScanDepth(path) ==
    1 + Cardinality({i \in 2 .. Len(path) : Chars(SubSeq(path, 1, i - 1)) >= 4})

\* ws_learn: the workspace's own depth, that of its .git/HEAD less two levels; and its guards.
GitHead == <<[name |-> ".git", len |-> 4, ext |-> ".git", dot |-> 4, stem |-> ""],
             [name |-> "HEAD", len |-> 4, ext |-> "", dot |-> 0, stem |-> ""]>>
WsDepth(ws) == ScanDepth(ws \o GitHead) - 2
IsWs(ws) ==
    /\ ws \in Seq(Range(ws)) /\ \A c \in Range(ws) : c.len \in Nat \ {0}
    /\ ws # <<>> => /\ WsDepth(ws) >= IF ws[1].name = "home" THEN 3 ELSE 2
                    /\ RootOf(ws[1].name) \in {"HOME", "MNT", "TMP", "OTHER"}

\* in_ws: the path begins with the directory's, its '/' included.
InWs(path, ws) ==
    ws # <<>> /\ Len(path) > Len(ws) /\ \A i \in DOMAIN ws : path[i] = ws[i]

InHomeCache(path) ==
    /\ Len(path) > 3
    /\ Name(path, 1) = "home" /\ path[2].len <= USER_MAX /\ Name(path, 3) = ".cache"

Below(path, dir) ==
    Len(path) > Len(dir) /\ \A i \in DOMAIN dir : path[i].name = dir[i]

\* quiet_mask: the verbs that are not logged.  W stands for C too.
QuietMask(path) ==
    IF \/ Name(path, 1) = "dev" /\ Len(path) = 2
          /\ path[2].name \in {"null", "zero", "full", "random", "urandom", "ptmx"}
       \/ Name(path, 1) = "dev" /\ Len(path) > 1 /\ path[2].stem = "tty"
       \/ Below(path, <<"dev", "pts">>)
       \/ InHomeCache(path)
       \/ Below(path, <<"root", ".cache">>)
    THEN {"R", "W"}
    ELSE IF \/ \E d \in {<<"usr", "lib">>, <<"usr", "lib64">>, <<"usr", "bin">>, <<"usr", "sbin">>,
                         <<"lib">>, <<"lib64">>, <<"bin">>, <<"sbin">>, <<"run", "user">>,
                         <<"sys", "devices">>} : Below(path, d)
            \/ Len(path) = 2 /\ Name(path, 1) = "etc" /\ Name(path, 2) = "ld.so.cache"
            \/ Len(path) > 1 /\ Name(path, 1) = "tmp" /\ path[2].stem = "tmp"
            \/ Below(path, <<"proc">>) /\ Name(path, Len(path)) \notin {"environ", "mem"}
    THEN {"R"} ELSE {}

\* mon_files_open of a file it creates: the C line, or none.  ws_apply puts what lies in the
\* workspace under a root and a depth of its own, after the quiet rules are asked.
CreateLine(place, ws) ==
    LET path == PathOf(place)
    IN  IF Chars(path) + 1 > PATH_MAX \/ "W" \in QuietMask(path) THEN Dropped
        ELSE <<[root |-> IF InWs(path, ws) THEN "WS" ELSE RootOf(Name(path, 1)),
                depth |-> ScanDepth(path) - (IF InWs(path, ws) THEN WsDepth(ws) ELSE 0),
                ext |-> ExtSeen(path[Len(path)], Chars(path), 4)]>>

-----------------------------------------------------------------------------
\* A removal.

\* A bug: a mountpoint counts as a level of its own.
WalkRoundMounts(place, w) ==
    IF w.atRoot \/ (w.i = place.root /\ ~w.onPoint) \/ w.i = 0 THEN [w EXCEPT !.atRoot = TRUE]
    ELSE IF w.i \in place.mounts /\ ~w.onPoint THEN [w EXCEPT !.onPoint = TRUE, !.depth = @ + 1]
    ELSE [w EXCEPT !.i = @ - 1, !.onPoint = FALSE, !.depth = @ + 1,
                   !.top = SubSeq(<<place.comps[w.i].name>> \o @, 1, Min({Len(@) + 1, 3}))]

\* dentry_depth, one round: at level i of the place, still on the mount whose root that level
\* may be, or stepped down to its mountpoint.  top: the last three levels counted.
WalkRound(place, w) ==
    IF w.atRoot \/ (w.i = place.root /\ ~w.onPoint) \/ w.i = 0 THEN [w EXCEPT !.atRoot = TRUE]
    ELSE IF w.i \in place.mounts /\ ~w.onPoint THEN [w EXCEPT !.onPoint = TRUE]
    ELSE [w EXCEPT !.i = @ - 1, !.onPoint = FALSE, !.depth = @ + 1,
                   !.top = SubSeq(<<place.comps[w.i].name>> \o @, 1, Min({Len(@) + 1, 3}))]

DentryDepth(place) ==
    LET w == FoldLeft(LAMBDA v, k : WalkRound(place, v),
                      [i |-> Len(place.comps), onPoint |-> FALSE, atRoot |-> FALSE,
                       depth |-> 0, top |-> <<>>],
                      [k \in 1 .. WALK_MAX |-> k])
    IN  [depth |-> w.depth, top |-> IF w.atRoot THEN w.top ELSE <<>>]

RemoveQuiet(top) ==
    \/ Len(top) > 2 /\ top[1] = "home" /\ top[3] = ".cache"
    \/ Len(top) > 1 /\ top[1] = "root" /\ top[2] = ".cache"

\* log_remove: the D line, or none.
RemoveLine(place) ==
    LET w == DentryDepth(place)
        leaf == place.comps[Len(place.comps)]
    IN  IF RemoveQuiet(w.top) THEN Dropped
        ELSE <<[root |-> RootOf(IF w.top = <<>> THEN "" ELSE w.top[1]), depth |-> w.depth,
                ext |-> ExtSeen(leaf, leaf.len, 0)]>>

\* mon_files_unlink, mon_files_rmdir and mon_files_rename: a rename removes what it lands on.
RemoveLogged(call) ==
    IF call.op = "rename" /\ (~call.exists \/ call.exchange) THEN Dropped
    ELSE RemoveLine(call.place)

-----------------------------------------------------------------------------
\* Both hooks see all of the file: the length of a path, the rounds of the walk, a user name that is
\* not too long.  The comment on remove_quiet sets /dev apart, and a .cache directory itself is
\* dropped although a file of that name would not be.
Comparable(place) ==
    LET path == PathOf(place)
    IN  /\ Len(path) > 1 /\ path[1].name # "dev"
        /\ Chars(path) < PATH_MAX
        /\ Len(path) + Cardinality({m \in place.mounts : m > place.root}) < WALK_MAX
        /\ path[2].len <= USER_MAX
        /\ Name(path, Len(path)) # ".cache"

\* c: the line of the file's creation while ws is its identity's workspace; d: that of its removal.
\* One is dropped where the other is ("D is a write, so it is dropped where quiet_mask drops W").
\* D counts all levels and never reads as WS ("D codons carry only the leaf name"), where C counts
\* below the workspace.  Elsewhere they agree, but for a first folder of one or two letters, which
\* C takes for none, and an extension that C does not look for behind it (the comment on path_scan's
\* call: "the first folder has at least 3 letters").
SameFile(path, ws, c, d) ==
    /\ d.root = RootOf(Name(path, 1)) /\ c.root = IF InWs(path, ws) THEN "WS" ELSE d.root
    /\ d.depth = c.depth + (IF InWs(path, ws) THEN Len(ws) ELSE IF path[1].len < 3 THEN 1 ELSE 0)
    /\ c.ext = d.ext \/ (path[1].len < 3 /\ c.ext = "")

RemoveRight(call, logged) ==
    LET c == CreateLine(call.place, call.ws)
    IN  IF call.op = "rename" /\ (~call.exists \/ call.exchange) THEN logged = Dropped
        ELSE /\ Comparable(call.place) =>
                    \/ logged = Dropped /\ c = Dropped
                    \/ /\ logged # Dropped /\ c # Dropped
                       /\ SameFile(PathOf(call.place), call.ws, c[1], logged[1])
             /\ logged # Dropped =>
                    logged[1].root \in {RootOf(Name(PathOf(call.place), 1)), "OTHER"}
=============================================================================
