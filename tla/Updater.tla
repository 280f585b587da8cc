------------------------------ MODULE Updater ------------------------------
(***************************************************************************)
(* Replacing the program by a newer release: src/internal/update/update.go.*)
(*                                                                         *)
(* A file is no file, a part of a program or a whole program.  A digest is *)
(* taken to tell every two contents apart, and a signature to be made only *)
(* over the digests of what the publisher built.                           *)
(***************************************************************************)
EXTENDS Integers, Sequences

CONSTANTS
    Systems,        \* what the program may run on: "linux", "darwin", "windows"
    Installed,      \* versions that may be installed at first
    Releases        \* what may be the latest release

\* A version is its numbers, or none of them: "dev" and what does not parse.
NotAVersion == <<>>

\* A program has a version, what it was built for, and is the publisher's or not.
NoFile == [version |-> NotAVersion, for |-> "nothing", is |-> "none"]
Part == [NoFile EXCEPT !.is = "part"]

NoRelease == [version |-> NotAVersion, assets |-> <<>>, sums |-> FALSE, signature |-> "none"]

IsProgram(file) == file.is \in {"built", "damaged"}

\* The words for a system that occur in a name for one.
Within(word) ==
    CASE word = "darwin" -> {"darwin", "win"}
      [] word = "macos" -> {"macos", "mac"}
      [] word = "windows" -> {"windows", "win"}
      [] OTHER -> {word}

Aliases(name) ==
    CASE name = "darwin" -> {"darwin", "macos", "osx", "mac"}
      [] name = "windows" -> {"windows", "win"}
      [] OTHER -> {name}

\* What a release is built for.
Platforms == {"linux", "darwin", "windows"}

\* An archive's name tells of a system and a machine, perhaps of a package; lists
\* is what checksums.txt, if there is one, has for it.
ASSUME UpdaterAssumption ==
    /\ Systems \subseteq Platforms
    /\ \A r \in Releases :
          /\ r.signature \in {"none", "wrong", "right"}
          /\ DOMAIN r.assets \subseteq Nat
          /\ \A i \in DOMAIN r.assets :
                /\ IsProgram(r.assets[i].holds)
                /\ r.assets[i].holds.for \in Platforms
                /\ r.assets[i].word \in Aliases(r.assets[i].holds.for)
                /\ r.signature = "right" /\ r.sums
                   => r.assets[i].lists.is \in {"none", "built"}

VARIABLES
    system,         \* the system, whether a package manager put the program there,
                    \* and whether a key was built in
    step,           \* of Apply
    running,        \* the program that runs
    release,        \* what CheckLatest read
    archive,        \* the program in the archive that fetchVerified returned
    files           \* exe, old (exe with .old) and tmp

updaterVars == <<system, step, running, release, archive, files>>

UpdaterInit ==
    /\ system \in [name : Systems, packaged : BOOLEAN, key : BOOLEAN]
    /\ step = "check"
    /\ \E v \in Installed :
          running = [version |-> v, for |-> system.name, is |-> "built"]
    /\ release = NoRelease
    /\ archive = NoFile
    /\ files = [exe |-> running, old |-> NoFile, tmp |-> NoFile]

----------------------------------------------------------------------------
(* Versions and archives. *)

Number(v, i) == IF i \in DOMAIN v THEN v[i] ELSE 0

Longest(v, w) == IF Len(v) > Len(w) THEN Len(v) ELSE Len(w)

\* Mutation: the first number that is greater decides, whatever comes before.
IsNewerAnywhere(latest, current) ==
    /\ latest # NotAVersion
    /\ \/ current = NotAVersion
       \/ \E i \in 1..Longest(latest, current) : Number(latest, i) > Number(current, i)

\* The first number that differs decides; a number that is missing is zero.
IsNewer(latest, current) ==
    /\ latest # NotAVersion
    /\ \/ current = NotAVersion
       \/ \E i \in 1..Longest(latest, current) :
             /\ Number(latest, i) > Number(current, i)
             /\ \A j \in 1..(i - 1) : Number(latest, j) = Number(current, j)

\* Mutation: the end of darwin passes for Windows.
MatchesAnyOf(name, word) == Within(word) \cap Aliases(name) # {}

MatchOS(name, word) ==
    Within(IF word = "darwin" THEN "macos" ELSE word) \cap Aliases(name) # {}

\* The archives for this machine; those with a package or the source are left out.
Candidates(r) ==
    {i \in DOMAIN r.assets : /\ ~r.assets[i].skipped /\ r.assets[i].machine
                             /\ MatchOS(system.name, r.assets[i].word)}

\* FindAsset: the first of them.
FindAsset(r) == r.assets[CHOOSE i \in Candidates(r) : \A j \in Candidates(r) : i <= j]

\* What fetchVerified lets through, if every download succeeds.
Verifies(r, asset) ==
    /\ r.sums
    /\ system.key => r.signature = "right"
    /\ asset.lists = asset.holds

----------------------------------------------------------------------------
(* Apply. *)

\* Every return removes the temporary file, once there is one.
Leave(left) ==
    /\ step' = "returned"
    /\ files' = [left EXCEPT !.tmp = NoFile]

\* CheckLatest, managedByPackage and FindAsset.
Check ==
    /\ step = "check"
    /\ release' \in Releases
    /\ \/ /\ IsNewer(release'.version, running.version)
          /\ ~(system.name = "linux" /\ system.packaged)
          /\ Candidates(release') # {}
          /\ step' = "fetch"
       \/ step' = "returned"
    /\ UNCHANGED <<system, running, archive, files>>

FetchVerified ==
    /\ step = "fetch"
    /\ \/ /\ Verifies(release, FindAsset(release))
          /\ archive' = FindAsset(release).holds
          /\ step' = "create"
       \/ step' = "returned" /\ UNCHANGED archive
    /\ UNCHANGED <<system, running, release, files>>

CreateTemp ==
    /\ step = "create"
    /\ \/ files' = [files EXCEPT !.tmp = Part] /\ step' = "extract"
       \/ Leave(files)
    /\ UNCHANGED <<system, running, release, archive>>

\* extractBinary, Chmod and Close.
Extract ==
    /\ step = "extract"
    /\ \/ /\ files' = [files EXCEPT !.tmp = archive]
          /\ step' = IF system.name = "windows" THEN "clear" ELSE "replace"
       \/ Leave(files)
    /\ UNCHANGED <<system, running, release, archive>>

Replace ==
    /\ step = "replace"
    /\ \/ Leave([files EXCEPT !.exe = files.tmp])
       \/ Leave(files)
    /\ UNCHANGED <<system, running, release, archive>>

\* Windows: what an earlier update left goes, if it can.
RemoveOld ==
    /\ step = "clear"
    /\ \/ files' = [files EXCEPT !.old = NoFile]
       \/ UNCHANGED files
    /\ step' = "aside"
    /\ UNCHANGED <<system, running, release, archive>>

\* Mutation: the old program is removed once it is out of the way.
MoveAsideAndForget ==
    /\ step = "aside"
    /\ \/ /\ files' = [files EXCEPT !.exe = NoFile, !.old = NoFile]
          /\ step' = "in"
       \/ Leave(files)
    /\ UNCHANGED <<system, running, release, archive>>

MoveAside ==
    /\ step = "aside"
    /\ \/ /\ files' = [files EXCEPT !.exe = NoFile, !.old = files.exe]
          /\ step' = "in"
       \/ Leave(files)
    /\ UNCHANGED <<system, running, release, archive>>

MoveIn ==
    /\ step = "in"
    /\ \/ Leave([files EXCEPT !.exe = files.tmp])
       \/ step' = "back" /\ UNCHANGED files
    /\ UNCHANGED <<system, running, release, archive>>

PutBack ==
    /\ step = "back"
    /\ \/ Leave([files EXCEPT !.exe = files.old, !.old = NoFile])
       \/ step' = "stranded" /\ files' = [files EXCEPT !.tmp = NoFile]
    /\ UNCHANGED <<system, running, release, archive>>

\* The process dies at any step.
Die ==
    /\ step \notin {"returned", "stranded", "died"}
    /\ step' = "died"
    /\ UNCHANGED <<system, running, release, archive, files>>

\* Another run, of the program that is installed now; what the last run left in a
\* temporary file stays there, and is nothing to this one.
RunAgain ==
    /\ step \in {"returned", "stranded", "died"}
    /\ IsProgram(files.exe)
    /\ running' = files.exe
    /\ step' = "check"
    /\ archive' = NoFile
    /\ files' = [files EXCEPT !.tmp = NoFile]
    /\ UNCHANGED <<system, release>>

Apply ==
    \/ Check \/ FetchVerified \/ CreateTemp \/ Extract \/ Replace
    \/ RemoveOld \/ MoveAside \/ MoveIn \/ PutBack

UpdaterStep == Apply \/ Die \/ RunAgain

UpdaterSpec == UpdaterInit /\ [][UpdaterStep]_updaterVars

----------------------------------------------------------------------------
(* Properties. *)

\* Whatever step of an update fails or is the last before the process dies, a
\* whole program is left: where it was, or beside it while a Windows update is
\* under way or when not even putting it back worked (Apply: "failing to update
\* must not leave the user with no program at all").
AProgramIsLeft ==
    \/ IsProgram(files.exe)
    \/ /\ system.name = "windows"
       /\ step \in {"in", "back", "stranded", "died"}
       /\ files.exe = NoFile /\ IsProgram(files.old)

\* Nothing but a program for this system is ever installed (FindAsset: "darwin" ends
\* in "win"), and with a key built in nothing but what the publisher built
\* (fetchVerified), from whatever releases update after update brings.
InstalledIsRight ==
    IsProgram(files.exe) => /\ files.exe.for = system.name
                            /\ system.key => files.exe.is = "built"

\* Every number is below a hundred and every version has three at most: an order
\* that does not go from number to number.
Rank(v) == 10000 * Number(v, 1) + 100 * Number(v, 2) + Number(v, 3)

\* An update never takes a program back to an older version (IsNewer).
NeverOlder ==
    IsProgram(files.exe) => Rank(files.exe.version) >= Rank(running.version)

=============================================================================
