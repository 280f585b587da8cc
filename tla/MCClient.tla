------------------------------ MODULE MCClient ------------------------------
(* A small instance of Client for TLC: two words of one letter, one other  *)
(* known word, nameplate 42.                                               *)
EXTENDS Client

MCLetters == {"a", "b", "i"}
MCDigits == {"2", "4"}

\* Capitals and the Turkish letters fold; a space, a dot and a hyphen separate.
MCPlain ==
    [r \in {"a", "b", "i", "2", "4", "0"} |-> r]
        @@ [A |-> "a", I |-> "i"] @@ ("dotless i" :> "i")
        @@ [r \in {" ", ".", "-"} |-> "none"]

MCWordList == {<<"a">>, <<"i">>}

MCSpoken == JoinCode(<<<<"a">>, <<"i">>>>, <<"4", "2">>)

\* Every code the program makes up is accepted as it stands, and its nameplate is the
\* server's.
ASSUME MCCodesAssumption ==
    \A words \in MCWordList \X MCWordList : \A first \in Digits, second \in AnyDigit :
        LET made == JoinCode(words, <<first, second>>) IN
        CheckCode(made) /\ NormalizeCode(made) = made /\ Nameplate(made) = <<first, second>>

MCSpellings ==
    {<<"a", "-", "i", "-", "4", "2">>, <<"A", " ", "dotless i", "4", "2">>,
     <<" ", "a", ".", ".", "I", " ", "4", "2", ".">>}

\* A word that is no word of a code, a word too few, a nameplate of one digit or
\* with a leading zero, and nothing but separators.
MCInputs ==
    MCSpellings \cup
        {<<"a", "-", "b", "-", "4", "2">>, <<"a", "-", "4", "2">>, <<"a", "-", "i", "-", "4">>,
         <<"a", "-", "i", "-", "0", "4", "2">>, <<".", " ">>}

\* An archive, named for a system and holding a program for it.
MCArchive(version, word, for, is, lists, machine, skipped) ==
    [word |-> word, machine |-> machine, skipped |-> skipped,
     holds |-> [version |-> version, for |-> for, is |-> is],
     lists |-> [version |-> version, for |-> for, is |-> lists]]

MCRelease(version, assets, sums, signature) ==
    [version |-> version, assets |-> assets, sums |-> sums, signature |-> signature]

MCFor(version, is, lists) ==
    <<MCArchive(version, "linux", "linux", is, lists, FALSE, FALSE),
      MCArchive(version, "linux", "linux", is, lists, TRUE, TRUE),
      MCArchive(version, "darwin", "darwin", is, lists, TRUE, FALSE),
      MCArchive(version, "windows", "windows", is, lists, TRUE, FALSE),
      MCArchive(version, "linux", "linux", is, lists, TRUE, FALSE)>>

\* One session with files to send, or two that fetch.
MCPlans == {<<"send">>, <<"receive", "receive">>}
MCSingle == {<<"send">>, <<"receive">>}
MCSend == {<<"send">>}
MCInstalled == {<<1, 4>>, <<>>}

\* Releases as they should be, one without its archives, one that was damaged after
\* it was signed, and ones that nobody signed or that have no digests.
MCReleases ==
    {MCRelease(v, MCFor(v, "built", "built"), TRUE, "right") :
        v \in {<<1, 4, 0>>, <<1, 4, 1>>, <<1, 3, 9>>, <<2>>}}
    \cup {MCRelease(<<2>>, <<>>, TRUE, "right"),
          MCRelease(<<2>>, MCFor(<<2>>, "damaged", "built"), TRUE, "right"),
          MCRelease(<<2>>, MCFor(<<2>>, "damaged", "damaged"), TRUE, "none"),
          MCRelease(<<2>>, MCFor(<<2>>, "damaged", "damaged"), TRUE, "wrong"),
          MCRelease(<<2>>, MCFor(<<2>>, "built", "built"), FALSE, "none")}
=============================================================================
