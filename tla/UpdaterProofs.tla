--------------------------- MODULE UpdaterProofs ---------------------------
(***************************************************************************)
(* Proofs about Updater for any systems, installed versions and releases:  *)
(* any number of archives with any names, digests and signatures.          *)
(***************************************************************************)
EXTENDS Updater, WellFoundedInduction, TLAPS

-----------------------------------------------------------------------------
(* Versions and archives.                                                  *)

\* A set of numbers that is not empty has a smallest one.
LEMMA LeastNumber ==
    ASSUME NEW T, T \subseteq Nat, T # {}
    PROVE  \E x \in T : \A y \in T : x <= y
<1> DEFINE Below == OpToRel(<, Nat)
<1>1. PICK x \in T : \A y \in T : <<y, x>> \notin Below
  <2>1. IsWellFoundedOn(Below, Nat)
    BY NatLessThanWellFounded
  <2> HIDE DEF Below
  <2> QED BY <2>1, WFMin
<1>2. \A y \in T : ~(y < x)
  BY <1>1 DEF OpToRel
<1> QED BY <1>2

\* Whatever the releases are, the archive that FindAsset takes is one for this
\* machine, and holds a program for its system.
LEMMA FindAssetFits ==
    ASSUME NEW r \in Releases, Candidates(r) # {}, system.name \in Systems
    PROVE  /\ \E i \in DOMAIN r.assets : FindAsset(r) = r.assets[i]
           /\ IsProgram(FindAsset(r).holds)
           /\ FindAsset(r).holds.for = system.name
<1>1. Candidates(r) \subseteq Nat
  BY UpdaterAssumption DEF Candidates
<1>2. PICK i \in Candidates(r) : FindAsset(r) = r.assets[i]
  BY <1>1, LeastNumber DEF FindAsset
<1>3. /\ i \in DOMAIN r.assets /\ IsProgram(r.assets[i].holds)
      /\ r.assets[i].holds.for \in Platforms
      /\ r.assets[i].word \in Aliases(r.assets[i].holds.for)
      /\ MatchOS(system.name, r.assets[i].word)
      /\ system.name \in Platforms
  BY UpdaterAssumption DEF Candidates
<1>4. \A name, for \in Platforms : \A word \in Aliases(for) :
          MatchOS(name, word) => for = name
  BY DEF Platforms, Aliases, MatchOS, Within
<1> QED BY <1>2, <1>3, <1>4

-----------------------------------------------------------------------------
(* The inductive invariant.                                                *)

Shape ==
    /\ system \in [name : Systems, packaged : BOOLEAN, key : BOOLEAN]
    /\ files = [exe |-> files.exe, old |-> files.old, tmp |-> files.tmp]

\* A program that this machine may run.
Right(file) == IsProgram(file) => /\ file.for = system.name
                                  /\ system.key => file.is = "built"

\* Every program there is may run, wherever it is kept.
AllRight ==
    Right(running) /\ Right(archive)
    /\ Right(files.exe) /\ Right(files.old) /\ Right(files.tmp)

\* There is something to fetch before it is fetched, and a program in the archive
\* and in the temporary file before either is used.
Prepared ==
    /\ step = "fetch" => release \in Releases /\ Candidates(release) # {}
    /\ step \in {"create", "extract"} => IsProgram(archive)
    /\ step \in {"replace", "clear", "aside", "in"} => IsProgram(files.tmp)

\* The old program leaves its place on Windows alone, and then it is beside it.
MovedAside ==
    /\ step \in {"clear", "aside", "in", "back", "stranded"} => system.name = "windows"
    /\ step \in {"in", "back", "stranded"} => files.exe = NoFile /\ IsProgram(files.old)
    /\ step \notin {"in", "back", "stranded", "died"} => IsProgram(files.exe)

UpdaterInv == Shape /\ AllRight /\ Prepared /\ MovedAside /\ AProgramIsLeft

LEMMA UpdaterInitHolds == UpdaterInit => UpdaterInv
BY UpdaterAssumption
   DEF UpdaterInit, UpdaterInv, Shape, AllRight, Right, Prepared, MovedAside,
       AProgramIsLeft, IsProgram, NoFile

\* CheckLatest finds something to fetch or the program stays as it is.
LEMMA CheckHolds == UpdaterInv /\ Check => UpdaterInv'
BY DEF Check, UpdaterInv, Shape, AllRight, Right, Prepared, MovedAside,
       AProgramIsLeft, IsProgram, Candidates

\* Only what the publisher built passes, if a key was built in.
LEMMA FetchHolds == UpdaterInv /\ FetchVerified => UpdaterInv'
<1> SUFFICES ASSUME UpdaterInv, FetchVerified PROVE UpdaterInv'
  OBVIOUS
<1> USE DEF UpdaterInv, Shape, AllRight, Right, Prepared, MovedAside,
            AProgramIsLeft, IsProgram
<1>1. CASE step' = "returned" /\ UNCHANGED archive
  BY <1>1 DEF FetchVerified
<1>2. CASE Verifies(release, FindAsset(release)) /\ archive' = FindAsset(release).holds
           /\ step' = "create"
  <2>1. release \in Releases /\ Candidates(release) # {} /\ system.name \in Systems
    BY DEF FetchVerified
  <2>2. /\ IsProgram(FindAsset(release).holds)
        /\ FindAsset(release).holds.for = system.name
    BY <2>1, FindAssetFits
  <2>3. system.key => FindAsset(release).holds.is = "built"
    <3>1. PICK i \in DOMAIN release.assets : FindAsset(release) = release.assets[i]
      BY <2>1, FindAssetFits
    <3> QED BY <1>2, <2>1, <2>2, <3>1, UpdaterAssumption DEF Verifies
  <2> HIDE DEF Candidates, FindAsset
  <2> QED BY <1>2, <2>2, <2>3 DEF FetchVerified
<1> QED BY <1>1, <1>2 DEF FetchVerified

LEMMA UnpackHolds == UpdaterInv /\ (CreateTemp \/ Extract) => UpdaterInv'
BY DEF CreateTemp, Extract, Leave, UpdaterInv, Shape, AllRight, Right, Prepared,
       MovedAside, AProgramIsLeft, IsProgram, NoFile, Part

\* Wherever a replacement fails, what is in the program's place, or beside it, is
\* the old program.
LEMMA ReplaceHolds ==
    UpdaterInv /\ (Replace \/ RemoveOld \/ MoveAside \/ MoveIn \/ PutBack) => UpdaterInv'
<1> USE DEF Leave, UpdaterInv, Shape, AllRight, Right, Prepared, MovedAside,
            AProgramIsLeft, IsProgram, NoFile
<1>1. ASSUME UpdaterInv, Replace PROVE UpdaterInv'
  <2>1. CASE Leave(files)
    BY <1>1, <2>1 DEF Replace
  <2>2. CASE Leave([files EXCEPT !.exe = files.tmp])
    <3>1. files' = [exe |-> files.tmp, old |-> files.old, tmp |-> NoFile]
      BY <1>1, <2>2
    <3>2. Shape'
      BY <1>1, <3>1 DEF Replace
    <3>3. AllRight'
      BY <1>1, <3>1 DEF Replace
    <3>4. (Prepared /\ MovedAside /\ AProgramIsLeft)'
      BY <1>1, <2>2, <3>1 DEF Replace
    <3> QED BY <3>2, <3>3, <3>4
  <2> QED BY <1>1, <2>1, <2>2 DEF Replace
<1>2. ASSUME UpdaterInv, RemoveOld PROVE UpdaterInv'
  BY <1>2 DEF RemoveOld
<1>3. ASSUME UpdaterInv, MoveAside PROVE UpdaterInv'
  <2>1. CASE Leave(files)
    BY <1>3, <2>1 DEF MoveAside
  <2>2. CASE step' = "in" /\ files' = [files EXCEPT !.exe = NoFile, !.old = files.exe]
    <3>1. files' = [exe |-> NoFile, old |-> files.exe, tmp |-> files.tmp]
      BY <1>3, <2>2
    <3>2. Shape'
      BY <1>3, <3>1 DEF MoveAside
    <3>3. AllRight'
      BY <1>3, <3>1 DEF MoveAside
    <3>4. (Prepared /\ MovedAside /\ AProgramIsLeft)'
      BY <1>3, <2>2, <3>1 DEF MoveAside
    <3> QED BY <3>2, <3>3, <3>4
  <2> QED BY <1>3, <2>1, <2>2 DEF MoveAside
<1>4. ASSUME UpdaterInv, MoveIn PROVE UpdaterInv'
  BY <1>4 DEF MoveIn
<1>5. ASSUME UpdaterInv, PutBack PROVE UpdaterInv'
  BY <1>5 DEF PutBack
<1> QED BY <1>1, <1>2, <1>3, <1>4, <1>5

LEMMA NextRunHolds == UpdaterInv /\ (Die \/ RunAgain) => UpdaterInv'
BY DEF Die, RunAgain, UpdaterInv, Shape, AllRight, Right, Prepared, MovedAside,
       AProgramIsLeft, IsProgram, NoFile

LEMMA StutterHolds == UpdaterInv /\ UNCHANGED updaterVars => UpdaterInv'
BY DEF updaterVars, UpdaterInv, Shape, AllRight, Right, Prepared, MovedAside,
       AProgramIsLeft, IsProgram, Candidates

LEMMA UpdaterInvHolds == UpdaterSpec => []UpdaterInv
<1>1. UpdaterInv /\ [UpdaterStep]_updaterVars => UpdaterInv'
  BY CheckHolds, FetchHolds, UnpackHolds, ReplaceHolds, NextRunHolds, StutterHolds
     DEF UpdaterStep, Apply
<1> QED BY <1>1, UpdaterInitHolds, PTL DEF UpdaterSpec

-----------------------------------------------------------------------------
(* Updates go forward.                                                     *)

LEMMA LongestIsLongest ==
    ASSUME NEW S, NEW v \in Seq(S), NEW w \in Seq(S)
    PROVE  /\ Longest(v, w) \in Nat
           /\ Len(v) <= Longest(v, w) /\ Len(w) <= Longest(v, w)
           /\ Longest(v, w) \in {Len(v), Len(w)}
<1>1. Len(v) \in Nat /\ Len(w) \in Nat
  OBVIOUS
<1> QED BY <1>1 DEF Longest

\* IsNewer orders all versions, whatever their lengths: none is newer than itself,
\* and what is newer than a newer one is newer.
THEOREM NewerIsAnOrder ==
    ASSUME NEW a \in Seq(Nat), NEW b \in Seq(Nat), NEW c \in Seq(Nat)
    PROVE  /\ ~IsNewer(a, a)
           /\ IsNewer(a, b) /\ IsNewer(b, c) => IsNewer(a, c)
<1>1. \A v \in Seq(Nat) : /\ Len(v) \in Nat
                          /\ \A k \in Nat \ {0} : /\ Number(v, k) \in Nat
                                                  /\ Number(v, k) > 0 => k <= Len(v)
  BY DEF Number
<1>2. ~IsNewer(a, a)
  BY <1>1 DEF IsNewer, Longest, NotAVersion
<1>3. ASSUME IsNewer(a, b), IsNewer(b, c), c # NotAVersion
      PROVE  IsNewer(a, c)
  <2>1. PICK i \in 1..Longest(a, b) :
            /\ Number(a, i) > Number(b, i)
            /\ \A m \in 1..(i - 1) : Number(a, m) = Number(b, m)
    BY <1>3 DEF IsNewer
  <2>2. PICK j \in 1..Longest(b, c) :
            /\ Number(b, j) > Number(c, j)
            /\ \A m \in 1..(j - 1) : Number(b, m) = Number(c, m)
    BY <1>3 DEF IsNewer
  <2>3. i \in Nat \ {0} /\ j \in Nat \ {0}
    BY LongestIsLongest
  <2> DEFINE k == IF i < j THEN i ELSE j
  <2>4. k \in Nat \ {0} /\ k <= i /\ k <= j
    BY <2>3
  <2>5. Number(a, k) > Number(c, k)
    <3>1. Number(a, k) \in Nat /\ Number(b, k) \in Nat /\ Number(c, k) \in Nat
      BY <1>1, <2>4
    <3>2. Number(a, k) >= Number(b, k) /\ Number(b, k) >= Number(c, k)
      BY <2>1, <2>2, <2>3, <2>4, <3>1
    <3>3. Number(a, k) > Number(b, k) \/ Number(b, k) > Number(c, k)
      BY <2>1, <2>2
    <3> HIDE DEF k
    <3> QED BY <3>1, <3>2, <3>3
  <2>6. \A m \in 1..(k - 1) : Number(a, m) = Number(c, m)
    BY <2>1, <2>2, <2>3
  <2>7. k \in 1..Longest(a, c)
    <3> HIDE DEF k
    <3>1. Number(a, k) \in Nat /\ Number(c, k) \in Nat
      BY <1>1, <2>4
    <3>2. k <= Len(a) /\ Len(a) \in Nat
      BY <1>1, <2>4, <2>5, <3>1
    <3>3. Longest(a, c) \in Nat /\ Len(a) <= Longest(a, c)
      BY <1>1, LongestIsLongest
    <3> QED BY <2>4, <3>2, <3>3
  <2> HIDE DEF k
  <2> QED BY <1>3, <2>5, <2>6, <2>7 DEF IsNewer
<1> QED BY <1>2, <1>3 DEF IsNewer

\* The versions that Rank tells apart: three numbers at most, below a hundred.
Ranked == {v \in Seq(0..99) : Len(v) <= 3}

LEMMA RankIsPositional ==
    ASSUME NEW v, NEW w,
           Number(v, 1) \in 0..99, Number(v, 2) \in 0..99, Number(v, 3) \in 0..99,
           Number(w, 1) \in 0..99, Number(w, 2) \in 0..99, Number(w, 3) \in 0..99,
           \/ Number(v, 1) > Number(w, 1)
           \/ Number(v, 1) = Number(w, 1) /\ Number(v, 2) > Number(w, 2)
           \/ /\ Number(v, 1) = Number(w, 1) /\ Number(v, 2) = Number(w, 2)
              /\ Number(v, 3) >= Number(w, 3)
    PROVE  Rank(v) >= Rank(w)
<1> DEFINE a == Number(v, 1)
           b == Number(v, 2)
           c == Number(v, 3)
           d == Number(w, 1)
           e == Number(w, 2)
           f == Number(w, 3)
<1>1. /\ Rank(v) = 10000 * a + 100 * b + c
      /\ Rank(w) = 10000 * d + 100 * e + f
  BY DEF Rank
<1>2. /\ a \in 0..99 /\ b \in 0..99 /\ c \in 0..99
      /\ d \in 0..99 /\ e \in 0..99 /\ f \in 0..99
      /\ a > d \/ (a = d /\ b > e) \/ (a = d /\ b = e /\ c >= f)
  OBVIOUS
<1> HIDE DEF a, b, c, d, e, f
<1> QED BY <1>1, <1>2

LEMMA RankedNumbers ==
    ASSUME NEW v \in Ranked
    PROVE  /\ Number(v, 1) \in 0..99 /\ Number(v, 2) \in 0..99
           /\ Number(v, 3) \in 0..99
<1>1. \A S : \A x \in Seq(S) : \A i \in DOMAIN x : x[i] \in S
  OBVIOUS
<1>2. \A i \in DOMAIN v : v[i] \in 0..99
  BY <1>1, Zenon DEF Ranked
<1> QED BY <1>2 DEF Number

LEMMA NewerRanksHigher ==
    ASSUME NEW v \in Ranked, NEW w \in Ranked, IsNewer(v, w)
    PROVE  Rank(v) >= Rank(w)
<1>1. \A x \in {v, w} : /\ Number(x, 1) \in 0..99 /\ Number(x, 2) \in 0..99
                        /\ Number(x, 3) \in 0..99
  BY RankedNumbers
<1>2. CASE w = NotAVersion
  <2>1. Number(w, 1) = 0 /\ Number(w, 2) = 0 /\ Number(w, 3) = 0
    <3>1. DOMAIN w = {}
      BY <1>2 DEF NotAVersion
    <3> QED BY <3>1 DEF Number
  <2>2. \/ Number(v, 1) > 0
        \/ Number(v, 1) = 0 /\ Number(v, 2) > 0
        \/ Number(v, 1) = 0 /\ Number(v, 2) = 0 /\ Number(v, 3) >= 0
    BY <1>1
  <2> QED BY <1>1, <2>1, <2>2, RankIsPositional
<1>3. CASE w # NotAVersion
  <2>1. PICK i \in 1..Longest(v, w) :
            /\ Number(v, i) > Number(w, i)
            /\ \A j \in 1..(i - 1) : Number(v, j) = Number(w, j)
    BY <1>3 DEF IsNewer
  <2>2. i \in {1, 2, 3}
    BY LongestIsLongest DEF Ranked
  <2>3. \/ Number(v, 1) > Number(w, 1)
        \/ Number(v, 1) = Number(w, 1) /\ Number(v, 2) > Number(w, 2)
        \/ /\ Number(v, 1) = Number(w, 1) /\ Number(v, 2) = Number(w, 2)
           /\ Number(v, 3) > Number(w, 3)
    BY <2>1, <2>2
  <2> QED BY <1>1, <2>3, RankIsPositional
<1> QED BY <1>2, <1>3

\* What the releases have to be like for an update to go forward: an archive holds
\* the version that its release is of.
HoldsItsVersion ==
    /\ Installed \subseteq Ranked
    /\ \A r \in Releases :
          /\ r.version \in Ranked
          /\ \A i \in DOMAIN r.assets : r.assets[i].holds.version = r.version

Newer(file) == file.version \in Ranked /\ IsNewer(file.version, running.version)
Same(file) == file.version = running.version

\* The version goes from the release to the archive, to the temporary file and into
\* the program's place.
ForwardInv ==
    /\ running.version \in Ranked
    /\ step = "fetch" => Newer(release)
    /\ step \in {"create", "extract"} => Newer(archive)
    /\ step \in {"replace", "clear", "aside", "in"} => Newer(files.tmp)
    /\ step \in {"in", "back"} => Same(files.old)
    /\ step \in {"check", "fetch", "create", "extract", "replace", "clear", "aside"}
          => Same(files.exe)
    /\ IsProgram(files.exe) => Same(files.exe) \/ Newer(files.exe)

LEMMA ForwardInitHolds == HoldsItsVersion /\ UpdaterInit => ForwardInv
BY DEF HoldsItsVersion, UpdaterInit, ForwardInv, Newer, Same, NoFile, IsProgram

\* What is found, fetched and unpacked is newer than the program that runs.
LEMMA ForwardUntilUnpacked ==
    ASSUME HoldsItsVersion, UpdaterInv, ForwardInv,
           Check \/ FetchVerified \/ CreateTemp \/ Extract
    PROVE  ForwardInv'
<1> USE DEF ForwardInv, Newer, Same
<1>1. CASE Check
  BY <1>1 DEF Check, HoldsItsVersion
<1>2. CASE FetchVerified
  <2>1. CASE step' = "returned" /\ UNCHANGED archive
    BY <1>2, <2>1 DEF FetchVerified
  <2>2. CASE step' = "create" /\ archive' = FindAsset(release).holds
    <3>1. release \in Releases /\ Candidates(release) # {} /\ system.name \in Systems
      BY <1>2 DEF FetchVerified, UpdaterInv, Prepared, Shape
    <3>2. FindAsset(release).holds.version = release.version
      BY <3>1, FindAssetFits DEF HoldsItsVersion
    <3> QED BY <1>2, <2>2, <3>2 DEF FetchVerified
  <2> QED BY <1>2, <2>1, <2>2 DEF FetchVerified
<1>3. CASE CreateTemp
  BY <1>3 DEF CreateTemp, Leave, UpdaterInv, Shape, NoFile, Part, IsProgram
<1>4. CASE Extract
  BY <1>4 DEF Extract, Leave, UpdaterInv, Shape, NoFile, IsProgram
<1> QED BY <1>1, <1>2, <1>3, <1>4

\* What is put in the program's place is newer, or is the program that was there.
LEMMA ForwardUntilReplaced ==
    ASSUME UpdaterInv, ForwardInv,
           Replace \/ RemoveOld \/ MoveAside \/ MoveIn \/ PutBack
    PROVE  ForwardInv'
<1> USE DEF ForwardInv, Newer, Same, Leave, UpdaterInv, Shape, NoFile, IsProgram
<1>1. CASE Replace
  BY <1>1 DEF Replace
<1>2. CASE RemoveOld
  BY <1>2 DEF RemoveOld
<1>3. CASE MoveAside
  <2>1. CASE Leave(files)
    BY <1>3, <2>1 DEF MoveAside
  <2>2. CASE step' = "in" /\ files' = [files EXCEPT !.exe = NoFile, !.old = files.exe]
    <3>1. files'.exe = NoFile /\ files'.old = files.exe /\ files'.tmp = files.tmp
      BY <2>2
    <3> QED BY <1>3, <2>2, <3>1 DEF MoveAside
  <2> QED BY <1>3, <2>1, <2>2 DEF MoveAside
<1>4. CASE MoveIn
  BY <1>4 DEF MoveIn, MovedAside
<1>5. CASE PutBack
  BY <1>5 DEF PutBack
<1> QED BY <1>1, <1>2, <1>3, <1>4, <1>5

LEMMA ForwardIntoTheNextRun ==
    ASSUME UpdaterInv, ForwardInv, Die \/ RunAgain \/ UNCHANGED updaterVars
    PROVE  ForwardInv'
<1> USE DEF ForwardInv, Newer, Same, UpdaterInv, Shape, NoFile, IsProgram
<1>1. CASE Die
  BY <1>1 DEF Die
<1>2. CASE RunAgain
  BY <1>2 DEF RunAgain
<1>3. CASE UNCHANGED updaterVars
  BY <1>3 DEF updaterVars
<1> QED BY <1>1, <1>2, <1>3

-----------------------------------------------------------------------------
(* What an update promises.                                                *)

\* Whatever fails, and wherever the process dies, update after update, a whole
\* program is left in its place, or beside it on Windows (Apply).
THEOREM UpdateLeavesAProgram == UpdaterSpec => []AProgramIsLeft
<1>1. UpdaterInv => AProgramIsLeft
  BY DEF UpdaterInv
<1> QED BY <1>1, UpdaterInvHolds, PTL

\* With a key built in, no release can bring in anything that the publisher did not
\* build, and no release at all a program for another system (fetchVerified,
\* FindAsset).
THEOREM UpdateInstallsTheRightProgram ==
    UpdaterSpec => []InstalledIsRight
<1>1. UpdaterInv => InstalledIsRight
  BY DEF UpdaterInv, AllRight, Right, InstalledIsRight
<1> QED BY <1>1, UpdaterInvHolds, PTL

\* If every archive holds the version its release is of, no update takes a program
\* back to an older one, however many follow each other (IsNewer, Apply).
THEOREM UpdateNeverGoesBack ==
    ASSUME HoldsItsVersion
    PROVE  UpdaterSpec => []NeverOlder
<1>1. UpdaterInv /\ ForwardInv => NeverOlder
  <2> SUFFICES ASSUME ForwardInv, IsProgram(files.exe)
               PROVE  Rank(files.exe.version) >= Rank(running.version)
    BY DEF NeverOlder
  <2>1. CASE Newer(files.exe)
    BY <2>1, NewerRanksHigher DEF ForwardInv, Newer
  <2>2. CASE Same(files.exe)
    <3>1. Rank(running.version) >= Rank(running.version)
      BY RankedNumbers, RankIsPositional DEF ForwardInv
    <3> QED BY <2>2, <3>1 DEF Same
  <2> QED BY <2>1, <2>2 DEF ForwardInv
<1>2. UpdaterInv /\ ForwardInv /\ [UpdaterStep]_updaterVars => ForwardInv'
  BY ForwardUntilUnpacked, ForwardUntilReplaced, ForwardIntoTheNextRun
     DEF UpdaterStep, Apply
<1>3. UpdaterSpec => []ForwardInv
  BY <1>2, ForwardInitHolds, UpdaterInvHolds, PTL DEF UpdaterSpec
<1> QED BY <1>1, <1>3, UpdaterInvHolds, PTL

=============================================================================
