------------------------------ MODULE Transfer ------------------------------
(***************************************************************************)
(* A transfer, attempt after attempt: Send and Receive of                  *)
(* src/internal/transfer/transfer.go with the files on both sides, Offer   *)
(* for the sender's and names.go for where the receiver puts them.         *)
(*                                                                         *)
(* Each sender serves one receiver, which tries again when an attempt      *)
(* fails; Host models who gets to be that receiver, and the handshake      *)
(* before an attempt.  All receivers save into one folder.  It holds names *)
(* of files (inodes), as two names may be links to one file, and a process *)
(* that has a file open keeps it whatever happens to its names.            *)
(***************************************************************************)
EXTENDS Offer, FiniteSets, SequencesExt

CONSTANTS
    Target,         \* file -> its path in the receiver's folder
    HardLinks,      \* what creating a hard link may come to: done or not
    MaxNameTries,
    Buffered,       \* chunks on the wire at most: a bound of the model
    Troubles,       \* what may go wrong
    MaxTroubles     \* how often: a bound of the model

AllTroubles == {"edit", "delete", "drop", "crash", "decline", "foreign", "week"}

ASSUME TransferAssumption ==
    /\ DOMAIN Target = Files
    /\ HardLinks \subseteq BOOLEAN /\ HardLinks # {}
    /\ MaxNameTries \in Nat \ {0}
    /\ Buffered \in Nat \ {0}
    /\ Troubles \subseteq AllTroubles
    /\ MaxTroubles \in Nat

VARIABLES
    up,         \* sender -> whether the stream of this attempt is open
    wire,       \* sender -> what it has written and the receiver not read
    back,       \* sender -> the receiver's answers it has not read
    manifest,   \* sender -> the manifest of this attempt
    snd,        \* sender -> where its Send is
    rcv,        \* sender -> where its receiver's Receive is
    dir,        \* name in the receivers' folder -> inode, 0 if it is free
    data,       \* inode -> its content
    marks,      \* the digests that have a .done mark
    stale,      \* whether what lies in partialDir is past its TTL
    placed,     \* history: the names files were given, with their digests
    troubles    \* how much has gone wrong

streams == <<up, wire, back, manifest>>
folder == <<dir, data, marks, stale, placed>>
vars == <<offerVars, streams, snd, rcv, folder, troubles>>

-----------------------------------------------------------------------------
(* The receivers' folder.                                                  *)

\* The k-th numbered name of a target: the target itself for 0.
Numbered(i, k) == <<"file", Target[i], k>>

FileNames == {Numbered(i, k) : i \in Files, k \in 0 .. MaxNameTries - 1}

\* The leftover of a digest, numbered by its place among identical files.
PartName(m, i) ==
    <<"part", m[i].digest,
      Cardinality({k \in 1 .. i - 1 : m[k].digest = m[i].digest})>>

\* The names dir has an inode for; all others are free.
Inode(name) == IF name \in DOMAIN dir THEN dir[name] ELSE 0

IsTaken(name) == Inode(name) # 0

Bind(d, name, inode) ==
    [n \in DOMAIN d \cup {name} |-> IF n = name THEN inode ELSE d[n]]

Unbind(d, name) == [n \in DOMAIN d \ {name} |-> d[n]]

\* A folder with names d and contents x while the processes r run: what no name
\* and no open file refers to is gone.
Folder(d, x, r) ==
    /\ dir' = d
    /\ rcv' = r
    /\ data' = [n \in ({d[m] : m \in DOMAIN d} \cup {r[s].fd : s \in Senders}) \ {0}
                    |-> x[n]]

NewInode == CHOOSE n \in 1 .. Cardinality(DOMAIN data) + 1 : n \notin DOMAIN data

\* A file of n chunks: what is past its end is dropped or read as zeros.
Truncated(c, n) == [k \in 1 .. n |-> IF k <= Len(c) THEN c[k] ELSE 0]

\* A chunk written after the first n.
Written(c, n, chunk) ==
    [k \in 1 .. (IF n < Len(c) THEN Len(c) ELSE n + 1) |->
        IF k = n + 1 THEN chunk ELSE IF k <= Len(c) THEN c[k] ELSE 0]

\* Mutation: the size is compared and the content is not.
HaveSize(i, info) ==
    IsTaken(Numbered(i, 0)) /\ Len(data[Inode(Numbered(i, 0))]) = info.size

\* The target holds exactly this file already.
HaveAlready(i, info) ==
    /\ IsTaken(Numbered(i, 0))
    /\ Len(data[Inode(Numbered(i, 0))]) = info.size
    /\ data[Inode(Numbered(i, 0))] = info.digest

-----------------------------------------------------------------------------
(* Send.                                                                   *)

\* What is on the wire: the manifest, or a chunk with the place it was read from.
ManifestLine == [file |-> 0, at |-> 0, chunk |-> 0]

Sender(pc) == [pc |-> pc, file |-> 0, pos |-> 0, offsets |-> <<>>]

\* Send returns: the stream is closed, and serve gives the room back or not.
SendReturns(s, pc) ==
    /\ snd' = [snd EXCEPT ![s] = Sender(pc)]
    /\ up' = [up EXCEPT ![s] = FALSE]
    /\ UNCHANGED <<wire, back, manifest, rcv, folder, troubles>>

SendGoesOn(s, r) ==
    /\ snd' = [snd EXCEPT ![s] = r]
    /\ UNCHANGED <<rcv, folder, troubles>>

\* waitForOffer: the files have been read, so now each is looked at again.
WaitEnds(s) ==
    /\ snd[s].pc = "waiting"
    /\ phase[s] = "ready"
    /\ cursor' = [cursor EXCEPT ![s] = 1]
    /\ SendGoesOn(s, Sender("checking"))
    /\ UNCHANGED <<src, phase, reading, digests, streams>>

\* The files could not be read: a SourceError, and the sender gives up.
OfferFailed(s) ==
    /\ snd[s].pc = "waiting" /\ phase[s] = "failed"
    /\ SendReturns(s, "gone")
    /\ UNCHANGED offerVars

FileIsGone(s) ==
    /\ snd[s].pc = "checking" /\ SourceIsGone(s)
    /\ cursor' = [cursor EXCEPT ![s] = 0]
    /\ SendReturns(s, "gone")
    /\ UNCHANGED <<src, phase, reading, digests>>

SendManifest(s) ==
    /\ snd[s].pc = "checking"
    /\ cursor[s] = NumFiles + 1
    /\ cursor' = [cursor EXCEPT ![s] = 0]
    /\ manifest' = [manifest EXCEPT ![s] =
                      [i \in Files |-> [size |-> digests[s][i].size,
                                        digest |-> digests[s][i].digest]]]
    /\ wire' = [wire EXCEPT ![s] = <<ManifestLine>>]
    /\ SendGoesOn(s, Sender("offered"))
    /\ UNCHANGED <<src, phase, reading, digests, up, back>>

\* The receiver accepts, and says how much of each file it has.
Accepted(s) ==
    /\ snd[s].pc = "offered"
    /\ back[s] # <<>> /\ Head(back[s]).ok
    /\ back' = [back EXCEPT ![s] = Tail(@)]
    /\ LET offsets == Head(back[s]).offsets IN
       SendGoesOn(s, [pc |-> "sending", file |-> 1, pos |-> offsets[1],
                      offsets |-> offsets])
    /\ UNCHANGED <<offerVars, up, wire, manifest>>

\* The receiver declines, or reports a failure at the end.
Refused(s) ==
    /\ snd[s].pc \in {"offered", "flushed"}
    /\ back[s] # <<>> /\ ~Head(back[s]).ok
    /\ SendReturns(s, "idle")
    /\ UNCHANGED offerVars

\* Mutation: a file is sent to its end, whatever size was promised.
UnsentToEnd(s) ==
    /\ snd[s].pc = "sending"
    /\ \/ snd[s].pos < manifest[s][snd[s].file].size
       \/ /\ snd[s].pos > snd[s].offsets[snd[s].file]
          /\ snd[s].pos < Len(src[s][snd[s].file].content)

\* sendFile reads the next chunk, at most up to the size it promised.
Unsent(s) == snd[s].pc = "sending" /\ snd[s].pos < manifest[s][snd[s].file].size

\* The file is opened for its first chunk and stays open.
IsOpen(s) ==
    \/ snd[s].pos > snd[s].offsets[snd[s].file]
    \/ src[s][snd[s].file].exists

SendChunk(s) ==
    LET i == snd[s].file
        at == snd[s].pos
    IN
    /\ Unsent(s)
    /\ IsOpen(s)
    /\ at < Len(src[s][i].content)
    /\ up[s] /\ Len(wire[s]) < Buffered
    /\ wire' = [wire EXCEPT ![s] = Append(@,
                  [file |-> i, at |-> at, chunk |-> src[s][i].content[at + 1]])]
    /\ SendGoesOn(s, [snd[s] EXCEPT !.pos = @ + 1])
    /\ UNCHANGED <<offerVars, up, back, manifest>>

\* "size changed while sending": the end of the file before its promised size.
FileShrank(s) ==
    /\ Unsent(s)
    /\ IsOpen(s)
    /\ snd[s].pos >= Len(src[s][snd[s].file].content)
    /\ SendReturns(s, "idle")
    /\ UNCHANGED offerVars

FileCannotOpen(s) ==
    /\ Unsent(s)
    /\ ~IsOpen(s)
    /\ SendReturns(s, "gone")
    /\ UNCHANGED offerVars

\* Mutation: one file too many.
NextFileTooMany(s) ==
    /\ snd[s].pc = "sending" /\ ~Unsent(s)
    /\ SendGoesOn(s, IF snd[s].file > NumFiles THEN Sender("flushed")
                     ELSE [snd[s] EXCEPT !.file = @ + 1])
    /\ UNCHANGED <<offerVars, streams>>

\* A file the receiver has all of, or has been sent the rest of, is done with.
NextFile(s) ==
    /\ snd[s].pc = "sending" /\ ~Unsent(s)
    /\ SendGoesOn(s, IF snd[s].file = NumFiles THEN Sender("flushed")
                     ELSE [snd[s] EXCEPT !.file = @ + 1,
                                         !.pos = snd[s].offsets[snd[s].file + 1]])
    /\ UNCHANGED <<offerVars, streams>>

Acknowledged(s) ==
    /\ snd[s].pc = "flushed"
    /\ back[s] # <<>> /\ Head(back[s]).ok
    /\ SendReturns(s, "delivered")
    /\ UNCHANGED offerVars

\* A write fails, or the answer waited for never comes.
SendLost(s) ==
    /\ ~up[s]
    /\ snd[s].pc \in {"waiting", "offered", "sending", "flushed"}
    /\ SendReturns(s, "idle")
    /\ UNCHANGED offerVars

SendStep(s) ==
    \/ WaitEnds(s) \/ OfferFailed(s) \/ FileIsGone(s) \/ SendManifest(s)
    \/ Accepted(s) \/ Refused(s) \/ SendChunk(s) \/ FileShrank(s)
    \/ FileCannotOpen(s) \/ NextFile(s) \/ Acknowledged(s) \/ SendLost(s)

-----------------------------------------------------------------------------
(* Receive.                                                                *)

Receiver(pc) == [pc |-> pc, file |-> 0, parts |-> <<>>, fd |-> 0, got |-> <<>>,
                 cand |-> 0]

Accept(offsets) == [ok |-> TRUE, offsets |-> offsets]
Refusal == [ok |-> FALSE, offsets |-> <<>>]

\* The receiver's process goes on, or ends with its file closed, in a folder with
\* names d and contents x.
Receives(s, r, d, x) ==
    /\ Folder(d, x, [rcv EXCEPT ![s] = r])
    /\ UNCHANGED <<offerVars, snd, manifest>>

\* Receive returns an error; the stream is closed behind what was said.
ReceiveFails(s, said, d) ==
    /\ Receives(s, Receiver("failed"), d, data)
    /\ up' = [up EXCEPT ![s] = FALSE]
    /\ back' = [back EXCEPT ![s] = @ \o said]
    /\ UNCHANGED <<wire, marks, stale, placed, troubles>>

\* A step that leaves the folder and the stream as they are.
ReceiveGoesOn(s, r) ==
    /\ Receives(s, r, dir, data)
    /\ UNCHANGED <<up, wire, back, marks, stale, placed, troubles>>

TakeOffer(s) ==
    /\ rcv[s].pc = "offer"
    /\ wire[s] # <<>>
    /\ wire' = [wire EXCEPT ![s] = Tail(@)]
    /\ Receives(s, Receiver("sweep"), dir, data)
    /\ UNCHANGED <<up, back, marks, stale, placed, troubles>>

\* The user looks at the list and says no.
Decline(s) ==
    /\ rcv[s].pc = "sweep"
    /\ Receives(s, Receiver("failed"), dir, data)
    /\ up' = [up EXCEPT ![s] = FALSE]
    /\ back' = [back EXCEPT ![s] = Append(@, Refusal)]
    /\ UNCHANGED <<wire, marks, stale, placed>>

\* A read or a write fails: what was saved so far is kept.
ReceiveLost(s) ==
    /\ ~up[s]
    /\ \/ rcv[s].pc \in {"offer", "receive"}
       \/ rcv[s].pc \in {"resume", "open"} /\ rcv[s].file = NumFiles + 1
    /\ ReceiveFails(s, <<>>, dir)

\* sweepPartials.
Sweep(s) ==
    LET swept == {n \in DOMAIN dir : stale => n \in FileNames} IN
    /\ rcv[s].pc = "sweep"
    /\ Receives(s, [Receiver("resume") EXCEPT !.file = 1],
                [n \in swept |-> dir[n]], data)
    /\ marks' = IF stale THEN {} ELSE marks
    /\ stale' = FALSE
    /\ UNCHANGED <<up, wire, back, placed, troubles>>

Resuming(s) == rcv[s].pc = "resume" /\ rcv[s].file \in Files

\* resumeFrom has looked at a file: got is what it can go on from.
Resume(s, part, d) ==
    /\ Receives(s, [rcv[s] EXCEPT !.parts = Append(@, part), !.file = @ + 1], d, data)
    /\ UNCHANGED <<up, wire, back, marks, stale, placed, troubles>>

IsComplete(s) ==
    LET info == manifest[s][rcv[s].file] IN
    info.digest \in marks /\ HaveAlready(rcv[s].file, info)

\* An earlier attempt finished this file and it is where it should be.
ResumeComplete(s) ==
    LET i == rcv[s].file IN
    /\ Resuming(s)
    /\ IsComplete(s)
    /\ Resume(s, [complete |-> TRUE, offset |-> manifest[s][i].size, got |-> <<>>],
              Unbind(dir, PartName(manifest[s], i)))

\* Mutation: a leftover is taken as it is, however long.
UsableAnyway(s) == IsTaken(PartName(manifest[s], rcv[s].file))

\* Whether there is a leftover that may be the beginning of the file.
Usable(s) ==
    LET i == rcv[s].file
        name == PartName(manifest[s], i)
    IN  IsTaken(name) /\ Len(data[Inode(name)]) <= manifest[s][i].size

ResumePartial(s) ==
    LET left == data[Inode(PartName(manifest[s], rcv[s].file))] IN
    /\ Resuming(s)
    /\ ~IsComplete(s) /\ Usable(s)
    /\ Resume(s, [complete |-> FALSE, offset |-> Len(left), got |-> left], dir)

\* Nothing to go on from; a leftover that is too long is removed.
ResumeAfresh(s) ==
    /\ Resuming(s)
    /\ ~IsComplete(s) /\ ~Usable(s)
    /\ Resume(s, [complete |-> FALSE, offset |-> 0, got |-> <<>>],
              Unbind(dir, PartName(manifest[s], rcv[s].file)))

SendAccept(s) ==
    LET parts == rcv[s].parts IN
    /\ rcv[s].pc = "resume"
    /\ rcv[s].file = NumFiles + 1
    /\ back' = [back EXCEPT ![s] =
                  Append(@, Accept([i \in Files |-> parts[i].offset]))]
    /\ Receives(s, [rcv[s] EXCEPT !.pc = "open", !.file = 1], dir, data)
    /\ UNCHANGED <<up, wire, marks, stale, placed, troubles>>

Opening(s) == rcv[s].pc = "open" /\ rcv[s].file \in Files

SkipComplete(s) ==
    /\ Opening(s)
    /\ rcv[s].parts[rcv[s].file].complete
    /\ ReceiveGoesOn(s, [rcv[s] EXCEPT !.file = @ + 1])

\* receiveFile opens the leftover, or a new one, and drops what is past the
\* offset.
OpenPart(s) ==
    LET i == rcv[s].file
        part == rcv[s].parts[i]
        name == PartName(manifest[s], i)
        inode == IF IsTaken(name) THEN dir[name] ELSE NewInode
        old == IF IsTaken(name) THEN data[inode] ELSE <<>>
    IN
    /\ Opening(s)
    /\ ~part.complete
    /\ Receives(s, [rcv[s] EXCEPT !.pc = "receive", !.fd = inode, !.got = part.got],
                Bind(dir, name, inode),
                [n \in DOMAIN data \cup {inode} |->
                    IF n = inode THEN Truncated(old, part.offset) ELSE data[n]])
    /\ UNCHANGED <<up, wire, back, marks, stale, placed, troubles>>

Info(s) == manifest[s][rcv[s].file]

\* The next chunk goes to the disk, behind those before it, and into the hash.
ReceiveChunk(s) ==
    LET r == rcv[s]
        chunk == Head(wire[s]).chunk
    IN
    /\ r.pc = "receive"
    /\ Len(r.got) < Info(s).size
    /\ wire[s] # <<>>
    /\ wire' = [wire EXCEPT ![s] = Tail(@)]
    /\ Receives(s, [r EXCEPT !.got = Append(@, chunk)], dir,
                [data EXCEPT ![r.fd] = Written(@, Len(r.got), chunk)])
    /\ UNCHANGED <<up, back, marks, stale, placed, troubles>>

AllReceived(s) == rcv[s].pc = "receive" /\ Len(rcv[s].got) = Info(s).size

\* Mutation: as many bytes as promised are taken for the file.
DigestMatchesAnyway(s) == TRUE

DigestMatches(s) == rcv[s].got = Info(s).digest

\* Mutation: what does not match is kept to resume from.
MismatchKept(s) ==
    /\ AllReceived(s) /\ ~DigestMatches(s)
    /\ ReceiveFails(s, <<Refusal>>, dir)

\* "The leftovers are poisoned."
Mismatch(s) ==
    /\ AllReceived(s) /\ ~DigestMatches(s)
    /\ ReceiveFails(s, <<Refusal>>, Unbind(dir, PartName(manifest[s], rcv[s].file)))

CloseFile(s) ==
    /\ AllReceived(s) /\ DigestMatches(s)
    /\ ReceiveGoesOn(s, [rcv[s] EXCEPT !.pc = "look", !.fd = 0, !.got = <<>>])

\* The very same file is at the target already, so this one is dropped.
KeepTarget(s) ==
    /\ rcv[s].pc = "look"
    /\ HaveAlready(rcv[s].file, Info(s))
    /\ Receives(s, [rcv[s] EXCEPT !.pc = "mark"],
                Unbind(dir, PartName(manifest[s], rcv[s].file)), data)
    /\ UNCHANGED <<up, wire, back, marks, stale, placed, troubles>>

StartPlacing(s) ==
    /\ rcv[s].pc = "look"
    /\ ~HaveAlready(rcv[s].file, Info(s))
    /\ ReceiveGoesOn(s, [rcv[s] EXCEPT !.pc = "place", !.cand = 0])

-----------------------------------------------------------------------------
(* place, for a finished leftover.                                         *)

Candidate(s) == Numbered(rcv[s].file, rcv[s].cand)

Source(s) == PartName(manifest[s], rcv[s].file)

Placing(s) == rcv[s].pc = "place" /\ rcv[s].cand < MaxNameTries

Names(s, name) == placed' = placed \cup {<<name, Info(s).digest>>}

\* Mutation: rename without looking, hard links or not.
RenameAtOnce(s) ==
    /\ Placing(s)
    /\ IsTaken(Source(s))
    /\ Receives(s, [rcv[s] EXCEPT !.pc = "mark"],
                Unbind(Bind(dir, Candidate(s), dir[Source(s)]), Source(s)), data)
    /\ Names(s, Candidate(s))
    /\ UNCHANGED <<up, wire, back, marks, stale, troubles>>

\* A link is created only under a free name: the check and the move are one step.
Link(s) ==
    /\ Placing(s) /\ TRUE \in HardLinks
    /\ IsTaken(Source(s))
    /\ ~IsTaken(Candidate(s))
    /\ Receives(s, [rcv[s] EXCEPT !.pc = "unlink"],
                Bind(dir, Candidate(s), dir[Source(s)]), data)
    /\ Names(s, Candidate(s))
    /\ UNCHANGED <<up, wire, back, marks, stale, troubles>>

\* The link fails, if not because the name is taken: look, and rename afterwards.
LookFirst(s) ==
    /\ Placing(s) /\ FALSE \in HardLinks
    /\ ~IsTaken(Candidate(s))
    /\ ReceiveGoesOn(s, [rcv[s] EXCEPT !.pc = "rename"])

\* A rename replaces whatever it finds.
Rename(s) ==
    /\ rcv[s].pc = "rename"
    /\ IsTaken(Source(s))
    /\ Receives(s, [rcv[s] EXCEPT !.pc = "mark"],
                Unbind(Bind(dir, Candidate(s), dir[Source(s)]), Source(s)), data)
    /\ Names(s, Candidate(s))
    /\ UNCHANGED <<up, wire, back, marks, stale, troubles>>

NameTaken(s) ==
    /\ Placing(s)
    /\ IsTaken(Candidate(s))
    /\ ReceiveGoesOn(s, [rcv[s] EXCEPT !.cand = @ + 1])

\* No name is left, or the leftover is not there any more.
PlaceFails(s) ==
    /\ \/ rcv[s].pc = "place" /\ rcv[s].cand = MaxNameTries
       \/ Placing(s) /\ ~IsTaken(Candidate(s)) /\ ~IsTaken(Source(s))
       \/ rcv[s].pc = "rename" /\ ~IsTaken(Source(s))
    /\ ReceiveFails(s, <<Refusal>>, dir)

Unlink(s) ==
    /\ rcv[s].pc = "unlink"
    /\ Receives(s, [rcv[s] EXCEPT !.pc = "mark"], Unbind(dir, Source(s)), data)
    /\ UNCHANGED <<up, wire, back, marks, stale, placed, troubles>>

\* The mark that this file need not be fetched again.
Mark(s) ==
    /\ rcv[s].pc = "mark"
    /\ marks' = marks \cup {Info(s).digest}
    /\ Receives(s, [rcv[s] EXCEPT !.pc = "open", !.file = @ + 1, !.cand = 0], dir, data)
    /\ UNCHANGED <<up, wire, back, stale, placed, troubles>>

\* Mutation: the last file is acknowledged as soon as its bytes are there.
AcknowledgeEarly(s) ==
    /\ \/ rcv[s].pc = "look" /\ rcv[s].file = NumFiles
       \/ rcv[s].pc = "open" /\ rcv[s].file = NumFiles + 1
    /\ back' = [back EXCEPT ![s] = Append(@, Accept(<<>>))]
    /\ Receives(s, [rcv[s] EXCEPT !.pc = "forget"], dir, data)
    /\ UNCHANGED <<up, wire, marks, stale, placed, troubles>>

\* Every file is in place: the sender may know.
Acknowledge(s) ==
    /\ rcv[s].pc = "open"
    /\ rcv[s].file = NumFiles + 1
    /\ back' = [back EXCEPT ![s] = Append(@, Accept(<<>>))]
    /\ Receives(s, [rcv[s] EXCEPT !.pc = "forget"], dir, data)
    /\ UNCHANGED <<up, wire, marks, stale, placed, troubles>>

ForgetFinished(s) ==
    /\ rcv[s].pc = "forget"
    /\ marks' = marks \ {manifest[s][i].digest : i \in Files}
    /\ Receives(s, Receiver("linger"), dir, data)
    /\ UNCHANGED <<up, wire, back, stale, placed, troubles>>

\* Receive waits until the sender has closed the stream.
LingerEnds(s) ==
    /\ rcv[s].pc = "linger"
    /\ ~up[s]
    /\ ReceiveGoesOn(s, Receiver("done"))

ReceiveStep(s) ==
    \/ TakeOffer(s) \/ ReceiveLost(s) \/ Sweep(s)
    \/ ResumeComplete(s) \/ ResumePartial(s) \/ ResumeAfresh(s) \/ SendAccept(s)
    \/ SkipComplete(s) \/ OpenPart(s) \/ ReceiveChunk(s) \/ Mismatch(s)
    \/ CloseFile(s) \/ KeepTarget(s) \/ StartPlacing(s)
    \/ Link(s) \/ LookFirst(s) \/ Rename(s) \/ NameTaken(s) \/ PlaceFails(s)
    \/ Unlink(s) \/ Mark(s) \/ Acknowledge(s) \/ ForgetFinished(s) \/ LingerEnds(s)

-----------------------------------------------------------------------------
(* Attempts, and what goes wrong.                                          *)

\* The receiver runs the same code again; the sender's room is free.
Attempt(s) ==
    /\ snd[s].pc = "idle" /\ rcv[s].pc = "failed"
    /\ snd' = [snd EXCEPT ![s] = Sender("waiting")]
    /\ rcv' = [rcv EXCEPT ![s] = Receiver("offer")]
    /\ up' = [up EXCEPT ![s] = TRUE]
    /\ wire' = [wire EXCEPT ![s] = <<>>]
    /\ back' = [back EXCEPT ![s] = <<>>]
    /\ manifest' = [manifest EXCEPT ![s] = <<>>]
    /\ UNCHANGED <<offerVars, folder, troubles>>

OfferStep(s) ==
    /\ \/ Prepare(s)
       \/ Digest(s)
       \/ snd[s].pc = "checking" /\ Recheck(s)
    /\ UNCHANGED <<streams, snd, rcv, folder, troubles>>

\* One more trouble of a kind.
Trouble(kind) ==
    /\ kind \in Troubles
    /\ troubles < MaxTroubles
    /\ troubles' = troubles + 1

OwnerEdits(s, i) ==
    /\ \/ Trouble("edit") /\ Edit(s, i)
       \/ Trouble("delete") /\ Delete(s, i)
    /\ UNCHANGED <<streams, snd, rcv, folder>>

\* The connection is lost; each side may still read what has reached it.
Drop(s) ==
    /\ Trouble("drop")
    /\ up[s]
    /\ up' = [up EXCEPT ![s] = FALSE]
    /\ UNCHANGED <<offerVars, wire, back, manifest, snd, rcv, folder>>

IsRunning(s) == rcv[s].pc \notin {"failed", "done"}

\* The receiver's process dies; the folder stays.
Crash(s) ==
    /\ Trouble("crash")
    /\ IsRunning(s)
    /\ Receives(s, Receiver("failed"), dir, data)
    /\ up' = [up EXCEPT ![s] = FALSE]
    /\ UNCHANGED <<wire, back, marks, stale, placed>>

UserDeclines(s) == Trouble("decline") /\ Decline(s)

\* The receiver's user saves a file of their own.
ForeignFile(i) ==
    /\ Trouble("foreign")
    /\ ~IsTaken(Numbered(i, 0))
    /\ \E c \in Contents :
          Folder(Bind(dir, Numbered(i, 0), NewInode),
                 [n \in DOMAIN data \cup {NewInode} |->
                     IF n = NewInode THEN c ELSE data[n]],
                 rcv)
    /\ UNCHANGED <<offerVars, streams, snd, marks, stale, placed>>

\* A week goes by between two attempts.
WeekPasses ==
    /\ Trouble("week")
    /\ \A s \in Senders : ~IsRunning(s)
    /\ ~stale
    /\ stale' = TRUE
    /\ UNCHANGED <<offerVars, streams, snd, rcv, dir, data, marks, placed>>

Disturb ==
    \/ \E s \in Senders, i \in Files : OwnerEdits(s, i)
    \/ \E s \in Senders : Drop(s) \/ Crash(s) \/ UserDeclines(s)
    \/ \E i \in Files : ForeignFile(i)
    \/ WeekPasses

\* Every receiver has its files, or a sender whose files are gone or delivered.
Rest ==
    /\ \A s \in Senders :
          /\ ~IsRunning(s)
          /\ rcv[s].pc = "failed" => snd[s].pc \in {"gone", "delivered"}
    /\ UNCHANGED vars

Init ==
    /\ OfferInit
    /\ up = [s \in Senders |-> FALSE]
    /\ wire = [s \in Senders |-> <<>>]
    /\ back = [s \in Senders |-> <<>>]
    /\ manifest = [s \in Senders |-> <<>>]
    /\ snd = [s \in Senders |-> Sender("idle")]
    /\ rcv = [s \in Senders |-> Receiver("failed")]
    /\ dir = <<>>
    /\ data = <<>>
    /\ marks = {}
    /\ stale = FALSE
    /\ placed = {}
    /\ troubles = 0

Next ==
    \/ \E s \in Senders :
          OfferStep(s) \/ SendStep(s) \/ ReceiveStep(s) \/ Attempt(s)
    \/ Disturb
    \/ Rest

Spec == Init /\ [][Next]_vars

\* Both programs run, and the receiver tries again as long as there is a room.
Fairness ==
    \A s \in Senders :
        /\ WF_vars(OfferStep(s))
        /\ WF_vars(SendStep(s))
        /\ WF_vars(ReceiveStep(s))
        /\ WF_vars(Attempt(s))

FairSpec == Spec /\ Fairness

-----------------------------------------------------------------------------
(* Properties.                                                             *)

SendLabels == {"idle", "waiting", "checking", "offered", "sending", "flushed",
               "delivered", "gone"}

ReceiveLabels == {"failed", "offer", "sweep", "resume", "open", "receive", "look",
                  "place", "rename", "unlink", "mark", "forget", "linger", "done"}

Chunks == Seq(Nat)

\* Every variable keeps its type, every name and every open file has an inode,
\* and a file is open exactly while it is being received.
TypeOK ==
    /\ snd \in [Senders -> [pc : SendLabels, file : 0 .. NumFiles, pos : Nat,
                            offsets : Seq(Nat)]]
    /\ rcv \in [Senders -> [pc : ReceiveLabels, file : 0 .. NumFiles + 1,
                            parts : Seq([complete : BOOLEAN, offset : Nat,
                                         got : Chunks]),
                            fd : Nat, got : Chunks, cand : 0 .. MaxNameTries]]
    /\ up \in [Senders -> BOOLEAN]
    /\ wire \in [Senders -> Seq([file : 0 .. NumFiles, at : Nat, chunk : Nat])]
    /\ back \in [Senders -> Seq([ok : BOOLEAN, offsets : Seq(Nat)])]
    /\ manifest \in [Senders -> Seq([size : Nat, digest : Chunks])]
    /\ data \in [DOMAIN data -> Chunks]
    /\ dir \in [DOMAIN dir -> DOMAIN data]
    /\ marks \subseteq Chunks
    /\ stale \in BOOLEAN
    /\ \A s \in Senders :
          /\ rcv[s].fd \in DOMAIN data \cup {0}
          /\ rcv[s].pc = "receive" <=> rcv[s].fd # 0

\* "The final name only appears once the digest matches, so an interrupted
\* transfer can never leave a corrupt file that looks complete": whatever was
\* given a name holds what its digest promised, then and ever after.
SavedFilesAreWhole ==
    \A p \in placed : IsTaken(p[1]) /\ data[dir[p[1]]] = p[2]

\* What holds of a saved file even so: it keeps its name, and what its digest
\* promised stays where it was, however attempts, crashes and edits follow each
\* other; no other file gets its name, and nothing cuts it short.
SavedFilesAreKept ==
    \A p \in placed : IsTaken(p[1]) /\ IsPrefix(p[2], data[dir[p[1]]])

\* s writes on the file of a name: the leftover it resumes is a file that was
\* saved and is still linked, and its manifest says there is more of it.
WritesOn(s, name) ==
    /\ rcv[s].pc = "receive"
    /\ rcv[s].fd = Inode(name)
    /\ <<name, Info(s).digest>> \in placed
    /\ Info(s).size > Len(Info(s).digest)

SavedIsResumed == \E s \in Senders, p \in placed : WritesOn(s, p[1])

\* place's "an existing file is never replaced": what a name in the folder stands
\* for stays as it is, the user's own files and those of earlier attempts, but for
\* two moments.  A saved file that is written on gets longer, and a rename without
\* hard links replaces what came up since it looked: a file of the user's, never
\* one that was saved.
NothingIsReplaced ==
    [][\A n \in FileNames \cap DOMAIN dir :
          \/ n \in DOMAIN dir' /\ data'[dir'[n]] = data[dir[n]]
          \/ \E s \in Senders :
                \/ /\ WritesOn(s, n)
                   /\ n \in DOMAIN dir' /\ IsPrefix(data[dir[n]], data'[dir'[n]])
                \/ /\ rcv[s].pc = "rename" /\ n = Candidate(s)
                   /\ \A p \in placed : n # p[1]]_vars

\* Send does not "declare success before the files are safely on disk": once it
\* returns nil, the receiver's folder holds every file of the manifest.
DeliveredIsSaved ==
    \A s \in Senders : snd[s].pc = "delivered" =>
        \A i \in Files : \E k \in 0 .. MaxNameTries - 1 :
            /\ IsTaken(Numbered(i, k))
            /\ data[dir[Numbered(i, k)]] = manifest[s][i].digest

\* Both sides count the same: a chunk read from file i at some place is written
\* to file i at that place, though the stream marks neither files nor places and
\* the sender's files change under it.
BytesLandWhereRead ==
    [][\A s \in Senders :
          rcv[s].pc = "receive" /\ wire'[s] # wire[s] /\ Len(wire'[s]) < Len(wire[s]) =>
              /\ Head(wire[s]).file = rcv[s].file
              /\ Head(wire[s]).at = Len(rcv[s].got)]_vars

\* checkOffsets never refuses an honest receiver: whatever its leftovers are, it
\* asks for no more of a file than this manifest says it has.
OffsetsFit ==
    \A s \in Senders : snd[s].pc = "offered" /\ back[s] # <<>> /\ back[s][1].ok =>
        \A i \in Files : back[s][1].offsets[i] \in 0 .. manifest[s][i].size

\* A receiver who keeps trying gets the files, or learns that the sender's are
\* gone: no leftover, mark or stale digest fails every attempt for ever.
KeepTryingEnds ==
    \A s \in Senders : <>(rcv[s].pc = "done" \/ snd[s].pc \in {"gone", "delivered"})

=============================================================================
