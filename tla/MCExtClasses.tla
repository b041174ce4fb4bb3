----------------------------- MODULE MCExtClasses -----------------------------
(***************************************************************************)
(* ExtClasses for TLC.  The listings have the sizes at which the number of *)
(* rounds, the halving of odd sizes and the bounds can go wrong, up to a   *)
(* full table and one entry more.  A table of N entries holds every other  *)
(* one of the possible words, so that keys that are listed, lie between    *)
(* two entries, below the first and above the last all occur.              *)
(***************************************************************************)
EXTENDS ExtClasses

\* The i-th word of seven characters.
Letter == <<48, 97, 98>>
Weight == <<729, 243, 81, 27, 9, 3, 1>>
Name(i) == [k \in 1 .. 7 |-> Letter[((i \div Weight[k]) % 3) + 1]]

Class(i) == IF i % 3 = 0 THEN "SRC" ELSE "CFG"

\* The listing is upside down, and its author wrote the letters in upper case.
Shout(s) == [i \in DOMAIN s |-> IF s[i] \in Lower THEN s[i] - 32 ELSE s[i]]
Listing(size) == [i \in 1 .. size |-> [ext |-> Shout(Name(2 * (size + 1 - i))), nc |-> Class(i)]]

Arranged(l) == [i \in Index |->
    IF i < Len(l) THEN [word |-> Word(l[Len(l) - i].ext), nc |-> l[Len(l) - i].nc] ELSE Blank]

\* Listings by size, one with a word of eight characters, and four to refuse.
MCListings ==
    <<Listing(0), Listing(1), Listing(2), Listing(3), Listing(7), Listing(511), Listing(512),
      Listing(513),
      <<[ext |-> <<97, 98, 97, 98, 97, 98, 97, 98>>, nc |-> "SRC"], [ext |-> <<97>>, nc |-> "CFG"]>>,
      <<[ext |-> <<97>>, nc |-> "SRC"], [ext |-> <<65>>, nc |-> "CFG"]>>,
      <<[ext |-> <<>>, nc |-> "SRC"]>>,
      <<[ext |-> <<16>>, nc |-> "SRC"]>>,
      <<[ext |-> <<97, 97, 97, 97, 97, 97, 97, 97, 97>>, nc |-> "SRC"]>> >>

\* Every listing in its own order and upside down, which is the sorted one.
MCTables == [t \in -Len(MCListings) .. Len(MCListings) |->
    IF t = 0 THEN [i \in Index |-> Blank]
    ELSE IF t > 0 THEN Arranged(MCListings[t])
    ELSE LET l == MCListings[-t] IN Arranged([i \in DOMAIN l |-> l[Len(l) + 1 - i]])]

Repeat(c, k) == [i \in 1 .. k |-> c]

MCExts == {<<>>, <<Dot>>} \cup {<<Dot>> \o Name(i) : i \in 1 .. 1027}
          \cup {<<Dot>> \o s : s \in UNION {[1 .. k -> Char] : k \in 1 .. 2}}
          \cup {<<Dot, 97, 98, 97, 98, 97, 98, 97, 98>>, <<Dot, 65, 98, 65, 98, 65, 98, 65, 66>>,
                <<Dot, 97, 98, 97, 98, 97, 98, 97, 98, 97>>, <<Dot>> \o Repeat(98, 8),
                <<Dot>> \o Repeat(98, 10), <<Dot>> \o Repeat(65, 7)}
=============================================================================
