------------------------------- MODULE Offer -------------------------------
(***************************************************************************)
(* A sender's selection: src/internal/transfer/offer.go.                   *)
(*                                                                         *)
(* The files are read once in the background for their sizes and digests,  *)
(* and looked at again for every receiver; their owner may change them at  *)
(* any moment, also while one is being read.  A content is a sequence of   *)
(* chunks, and stands for its own digest: SHA-256 is taken to be injective.*)
(***************************************************************************)
EXTENDS Integers, Sequences

CONSTANTS
    Senders,
    NumFiles,       \* files in a selection
    Contents,       \* what a file may hold
    Selections      \* what the files may hold at first: functions on Files

Files == 1 .. NumFiles

ASSUME OfferAssumption ==
    /\ NumFiles \in Nat \ {0}
    /\ Contents \subseteq Seq(Nat)
    /\ Selections \subseteq [Files -> Contents]

VARIABLES
    src,        \* sender -> file -> what is on its disk
    phase,      \* sender -> whether the first read is under way, over or failed
    cursor,     \* sender -> the file being looked at, 0 when none is
    reading,    \* sender -> the read of one file that is under way
    digests     \* sender -> file -> what was found when it was read

offerVars == <<src, phase, cursor, reading, digests>>

\* No read under way.
NoRead == [file |-> 0, size |-> 0, stamp |-> 0, got |-> <<>>]

Undigested == [size |-> 0, digest |-> <<>>, stamp |-> -1]

\* digest opens the file and looks at it before reading it.
OpenSource(s, i) ==
    /\ src[s][i].exists
    /\ reading' = [reading EXCEPT ![s] =
                     [file |-> i, size |-> Len(src[s][i].content),
                      stamp |-> src[s][i].stamp, got |-> <<>>]]
    /\ UNCHANGED <<src, phase, cursor, digests>>

\* The next chunk goes into the hash.  A file that is removed stays readable to
\* whoever has it open.
ReadSource(s) ==
    LET r == reading[s]
        content == src[s][r.file].content
    IN
    /\ r.file # 0
    /\ Len(r.got) < Len(content)
    /\ reading' = [reading EXCEPT ![s].got = Append(@, content[Len(@) + 1])]
    /\ UNCHANGED <<src, phase, cursor, digests>>

\* The end of the file: its digest, with the size and the stamp it had before.
EndSource(s) ==
    LET r == reading[s] IN
    /\ r.file # 0
    /\ Len(r.got) >= Len(src[s][r.file].content)
    /\ digests' = [digests EXCEPT ![s][r.file] =
                     [size |-> r.size, digest |-> r.got, stamp |-> r.stamp]]
    /\ reading' = [reading EXCEPT ![s] = NoRead]
    /\ cursor' = [cursor EXCEPT ![s] = @ + 1]
    /\ UNCHANGED <<src, phase>>

Digest(s) == ReadSource(s) \/ EndSource(s)

-----------------------------------------------------------------------------
(* Offer.read, in the background.                                          *)

ReadNext(s) ==
    /\ phase[s] = "reading"
    /\ reading[s].file = 0
    /\ cursor[s] \in Files
    /\ OpenSource(s, cursor[s])

ReadFails(s) ==
    /\ phase[s] = "reading"
    /\ reading[s].file = 0
    /\ cursor[s] \in Files
    /\ ~src[s][cursor[s]].exists
    /\ phase' = [phase EXCEPT ![s] = "failed"]
    /\ cursor' = [cursor EXCEPT ![s] = 0]
    /\ UNCHANGED <<src, reading, digests>>

\* All of them are read: the offer is ready.
ReadEnds(s) ==
    /\ phase[s] = "reading"
    /\ cursor[s] = NumFiles + 1
    /\ phase' = [phase EXCEPT ![s] = "ready"]
    /\ cursor' = [cursor EXCEPT ![s] = 0]
    /\ UNCHANGED <<src, reading, digests>>

Prepare(s) == ReadNext(s) \/ ReadFails(s) \/ ReadEnds(s)

-----------------------------------------------------------------------------
(* Offer.manifest, for one receiver.                                       *)

\* The file whose turn it is, between two reads.
Looking(s) ==
    phase[s] = "ready" /\ reading[s].file = 0 /\ cursor[s] \in Files

\* Whether a file looks as it did when it was read.
Untouched(s, i) ==
    /\ Len(src[s][i].content) = digests[s][i].size
    /\ src[s][i].stamp = digests[s][i].stamp

KeepDigest(s) ==
    /\ Looking(s)
    /\ src[s][cursor[s]].exists
    /\ Untouched(s, cursor[s])
    /\ cursor' = [cursor EXCEPT ![s] = @ + 1]
    /\ UNCHANGED <<src, phase, reading, digests>>

DigestAgain(s) ==
    /\ Looking(s)
    /\ ~Untouched(s, cursor[s])
    /\ OpenSource(s, cursor[s])

Recheck(s) == KeepDigest(s) \/ DigestAgain(s)

SourceIsGone(s) == Looking(s) /\ ~src[s][cursor[s]].exists

-----------------------------------------------------------------------------
(* The owner of the files.                                                 *)

\* Every change gives a file a new modification time.
Edit(s, i) ==
    \E c \in Contents \ {src[s][i].content} :
        /\ src[s][i].exists
        /\ src' = [src EXCEPT ![s][i].content = c, ![s][i].stamp = @ + 1]
        /\ UNCHANGED <<phase, cursor, reading, digests>>

Delete(s, i) ==
    /\ src[s][i].exists
    /\ src' = [src EXCEPT ![s][i].exists = FALSE]
    /\ UNCHANGED <<phase, cursor, reading, digests>>

OfferInit ==
    /\ src \in [Senders -> {[i \in Files |->
                              [content |-> f[i], stamp |-> 0, exists |-> TRUE]] :
                            f \in Selections}]
    /\ phase = [s \in Senders |-> "reading"]
    /\ cursor = [s \in Senders |-> 1]
    /\ reading = [s \in Senders |-> NoRead]
    /\ digests = [s \in Senders |-> [i \in Files |-> Undigested]]

=============================================================================
