------------------------------ MODULE UriMatch ------------------------------
(***************************************************************************)
(* Matching of resource names: zhe-uri.  A name is a sequence of           *)
(* characters; ? stands for a character other than /, * for any number of  *)
(* them, and ** for any characters at all.  Two names match when some      *)
(* string is described by both.                                            *)
(***************************************************************************)
EXTENDS Integers, SequencesExt

juststars(x) == \A i \in DOMAIN x : x[i] = "*"

\* mutant: a single * moves over slashes, too
MovesOverSlash(c) == TRUE
StarTakes(c) == c # "/"

RECURSIVE zhe_urimatch(_, _)

\* a is not empty and starts with a star, b is not empty
MatchStar(a, b) ==
    IF Len(a) >= 2 /\ a[2] = "*"
    THEN zhe_urimatch(SubSeq(a, 3, Len(a)), b) \/ zhe_urimatch(a, Tail(b))
    ELSE \/ zhe_urimatch(Tail(a), b)
         \/ StarTakes(Head(b)) /\ zhe_urimatch(a, Tail(b))

zhe_urimatch(a, b) ==
    IF a = <<>> \/ b = <<>> THEN juststars(a) /\ juststars(b)
    ELSE CASE Head(a) = "*" -> MatchStar(a, b)
           [] Head(a) # "*" /\ Head(b) = "?" -> Head(a) # "/" /\ zhe_urimatch(Tail(a), Tail(b))
           [] Head(a) # "*" /\ Head(b) # "?" /\ (Head(a) = "?" \/ Head(b) = "*") -> zhe_urimatch(b, a)
           [] OTHER -> Head(a) = Head(b) /\ zhe_urimatch(Tail(a), Tail(b))

-----------------------------------------------------------------------------
(* Names that may be declared.  The tests for forbidden sequences look at   *)
(* the first characters at every step of the loop, so that sequences further *)
(* on are accepted.                                                         *)

Characters == {"/", "?", "*", "-", "_"} \cup {"a", "b", "c"}

Forbidden(a) ==
    \/ Len(a) >= 2 /\ a[1] = "*" /\ a[2] = "?"
    \/ Len(a) >= 3 /\ a[1] = "*" /\ a[2] = "*" /\ a[3] \in {"?", "*"}
    \/ Len(a) >= 2 /\ a[1] = "/" /\ a[2] = "/"

zhe_urivalid(a) ==
    /\ \/ Len(a) >= 1 /\ a[1] = "/"
       \/ Len(a) >= 2 /\ a[1] = "*" /\ a[2] = "*"
    /\ Last(a) # "/"
    /\ ToSet(a) \subseteq Characters
    /\ ~Forbidden(a)

-----------------------------------------------------------------------------
(* What matching means. *)

\* the strings of at most n characters of chars
Strings(chars, n) == UNION {[1 .. k -> chars] : k \in 0 .. n}

RECURSIVE Describes(_, _)

\* Does name a describe string w, one without wildcards?
Describes(a, w) ==
    IF a = <<>> THEN w = <<>>
    ELSE LET stars == Len(a) >= 2 /\ a[1] = "*" /\ a[2] = "*"
             rest == SubSeq(a, IF stars THEN 3 ELSE 2, Len(a))
         IN  IF Head(a) = "*"
             THEN \E k \in 0 .. Len(w) :
                     /\ stars \/ \A i \in 1 .. k : w[i] # "/"
                     /\ Describes(rest, SubSeq(w, k + 1, Len(w)))
             ELSE /\ w # <<>>
                  /\ Head(a) = Head(w) \/ (Head(a) = "?" /\ Head(w) # "/")
                  /\ Describes(rest, Tail(w))

\* "Matching is symmetric": zhe_urimatch, which swaps its arguments as it goes,
\* says for any two of the names, in either order, whether a string of at most
\* n characters is described by both.
MatchesCommonString(names, chars, n) ==
    LET described == [a \in names |-> {w \in Strings(chars, n) : Describes(a, w)}]
    IN  \A a, b \in names :
            zhe_urimatch(a, b) <=> described[a] \cap described[b] # {}
=============================================================================
