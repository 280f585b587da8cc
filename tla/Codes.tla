------------------------------- MODULE Codes -------------------------------
(***************************************************************************)
(* Room codes: src/internal/rendezvous/code.go and CheckCode of            *)
(* src/internal/p2p/node.go.                                               *)
(*                                                                         *)
(* A code is two secret words and the room's nameplate.  What a person     *)
(* types is a sequence of runes; Plain says what a rune folds to: a letter *)
(* or digit of a code, or nothing, which makes it a separator.  One letter *)
(* stands for a letter of any keyboard and case.                           *)
(***************************************************************************)
EXTENDS Integers, Sequences, SequencesExt

CONSTANTS
    Plain,          \* rune -> the letter or digit it folds to, or Separator
    Letters,
    Digits,         \* without zero
    WordList,       \* the words codes are made of, each a sequence of letters
    MaxCodeLen

Hyphen == "-"
Separator == "none"
Zero == "0"
AnyDigit == Digits \cup {Zero}

ASSUME CodesAssumption ==
    /\ Letters \cap AnyDigit = {}
    /\ Hyphen \notin Letters \cup AnyDigit
    /\ \A r \in DOMAIN Plain : Plain[r] \in Letters \cup AnyDigit \cup {Separator}
    /\ Separator \notin Letters \cup AnyDigit
    /\ \A r \in Letters \cup AnyDigit : r \in DOMAIN Plain /\ Plain[r] = r
    /\ Hyphen \in DOMAIN Plain /\ Plain[Hyphen] = Separator
    /\ WordList \subseteq Seq(Letters) \ {<<>>}
    /\ MaxCodeLen \in Nat

\* What the rune before the i-th folds to.
Before(typed, i) == IF i = 1 THEN Separator ELSE Plain[typed[i - 1]]

\* Mutation: a number typed straight after a word is not split off.
WritesUnsplit(typed, i) ==
    LET r == Plain[typed[i]] IN
    CASE r # Separator -> <<r>>
      [] r = Separator /\ Before(typed, i) # Separator -> <<Hyphen>>
      [] OTHER -> <<>>

\* NormalizeCode, one rune: letters and digits are written, with a hyphen before
\* a digit that follows a letter; separators after something written make one
\* hyphen.  That it stops at twice MaxCodeLen makes no code valid or invalid.
Writes(typed, i) ==
    LET r == Plain[typed[i]] IN
    CASE r \in AnyDigit /\ Before(typed, i) \in Letters -> <<Hyphen, r>>
      [] r \in Letters -> <<r>>
      [] r \in AnyDigit /\ Before(typed, i) \notin Letters -> <<r>>
      [] r = Separator /\ Before(typed, i) # Separator -> <<Hyphen>>
      [] OTHER -> <<>>

WithoutLastHyphen(code) ==
    IF code # <<>> /\ Last(code) = Hyphen THEN Front(code) ELSE code

NormalizeCode(typed) ==
    WithoutLastHyphen(FlattenSeq([i \in DOMAIN typed |-> Writes(typed, i)]))

\* The places of the hyphens, and the parts around them.
Hyphens(code) == {i \in DOMAIN code : code[i] = Hyphen}

IsWord(part) == part # <<>> /\ \A i \in DOMAIN part : part[i] \in Letters

\* The nameplate has two digits or more and no leading zero.
IsNumber(part) ==
    /\ Len(part) >= 2
    /\ part[1] \in Digits
    /\ \A i \in DOMAIN part : part[i] \in AnyDigit

\* The two words and the number of a code that has two hyphens.
Parts(code) ==
    LET i == CHOOSE k \in Hyphens(code) : \A l \in Hyphens(code) : k <= l
        j == CHOOSE k \in Hyphens(code) : \A l \in Hyphens(code) : k >= l
    IN  <<SubSeq(code, 1, i - 1), SubSeq(code, i + 1, j - 1),
          SubSeq(code, j + 1, Len(code))>>

ValidCode(code) ==
    /\ Len(code) <= MaxCodeLen
    /\ \E i, j \in Hyphens(code) : i < j /\ Hyphens(code) = {i, j}
    /\ IsWord(Parts(code)[1]) /\ IsWord(Parts(code)[2])
    /\ IsNumber(Parts(code)[3])

\* Whether UnknownWord finds nothing to object to.
KnownWords(code) == Parts(code)[1] \in WordList /\ Parts(code)[2] \in WordList

Nameplate(code) == Parts(code)[3]

JoinCode(words, nameplate) == words[1] \o <<Hyphen>> \o words[2] \o <<Hyphen>> \o nameplate

\* What CheckCode accepts, once normalized.
CheckCode(typed) ==
    LET code == NormalizeCode(typed) IN ValidCode(code) /\ KnownWords(code)

=============================================================================
