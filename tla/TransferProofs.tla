--------------------------- MODULE TransferProofs ---------------------------
(***************************************************************************)
(* Proofs about Transfer for any number of senders, receivers, files and   *)
(* chunks: types, and what the two ends of a stream know of each other.    *)
(***************************************************************************)
EXTENDS Transfer, FiniteSetTheorems, TLAPS

-----------------------------------------------------------------------------
(* The inductive invariant.                                                *)

Phases == {"reading", "ready", "failed"}

OfferTypes ==
    /\ src \in [Senders -> [Files -> [content : Contents, stamp : Nat,
                                      exists : BOOLEAN]]]
    /\ phase \in [Senders -> Phases]
    /\ cursor \in [Senders -> 0 .. NumFiles + 1]
    /\ reading \in [Senders -> [file : 0 .. NumFiles, size : Nat, stamp : Int,
                                got : Chunks]]
    /\ digests \in [Senders -> [Files -> [size : Nat, digest : Chunks, stamp : Int]]]

\* A file that is open for its digest is the one under the cursor, in the first
\* read or for a receiver that waits for its manifest.
ReadsUnderCursor(s) ==
    reading[s].file # 0 =>
        /\ cursor[s] = reading[s].file
        /\ \/ phase[s] = "reading"
           \/ phase[s] = "ready" /\ snd[s].pc = "checking"

OfferInv ==
    /\ OfferTypes
    /\ \A s \in Senders :
          /\ ReadsUnderCursor(s)
          /\ snd[s].pc = "checking" => phase[s] = "ready"

FolderTypes ==
    /\ IsFiniteSet(DOMAIN data)
    /\ DOMAIN data \subseteq Nat \ {0}
    /\ data \in [DOMAIN data -> Chunks]
    /\ dir \in [DOMAIN dir -> DOMAIN data]
    /\ marks \subseteq Chunks
    /\ stale \in BOOLEAN
    /\ \A s \in Senders : rcv[s].fd \in DOMAIN data \cup {0}

\* What is said of one stream is said of the values it has: a manifest m, a
\* sender p, a receiver q, the wire w and the answers b.
Senderly == [pc : SendLabels, file : 0 .. NumFiles, pos : Nat, offsets : Seq(Nat)]
Part == [complete : BOOLEAN, offset : Nat, got : Chunks]
Receiverly == [pc : ReceiveLabels, file : 0 .. NumFiles + 1, parts : Seq(Part),
               fd : Nat, got : Chunks, cand : 0 .. MaxNameTries]
Piece == [file : 0 .. NumFiles, at : Nat, chunk : Nat]
Answer == [ok : BOOLEAN, offsets : Seq(Nat)]
Entry == [size : Nat, digest : Chunks]

StreamTypes(m, p, q, w, b) ==
    /\ m \in Seq(Entry)
    /\ p \in Senderly
    /\ q \in Receiverly
    /\ w \in Seq(Piece)
    /\ b \in Seq(Answer)
    /\ q.pc = "receive" <=> q.fd # 0

\* A receiver that has a part for each file.
Saving == {"open", "receive", "look", "place", "rename", "unlink", "mark"}
Finishing == {"forget", "linger", "done"}

\* The manifest is there for whoever needs it.
HasManifest(m, p, q, w) ==
    \/ p.pc \in {"offered", "sending", "flushed", "delivered"}
    \/ w # <<>>
    \/ q.pc \in {"sweep", "resume", "forget"} \cup Saving
    => DOMAIN m = Files

\* Who speaks when, until the receiver has accepted.
TakesTurns(p, q, w, b) ==
    /\ p.pc \in {"waiting", "checking"} =>
          w = <<>> /\ b = <<>> /\ q.pc \in {"offer", "failed"}
    /\ q.pc = "offer" =>
          /\ b = <<>> /\ w \in {<<>>, <<ManifestLine>>}
          /\ p.pc \notin {"sending", "flushed", "delivered"}
    /\ q.pc \in {"sweep", "resume"} =>
          w = <<>> /\ b = <<>> /\ p.pc \in {"offered", "idle", "gone"}
    /\ p.pc = "offered" /\ q.pc \in Saving \cup Finishing => b # <<>> /\ b[1].ok

\* Offsets a sender can go on from.
Fit(offsets, m) ==
    DOMAIN offsets = Files /\ \A i \in Files : offsets[i] <= m[i].size

SenderFits(m, p, b) ==
    /\ p.pc = "offered" /\ b # <<>> /\ b[1].ok => Fit(b[1].offsets, m)
    /\ p.pc = "sending" =>
          /\ Fit(p.offsets, m)
          /\ p.file \in Files
          /\ p.pos <= m[p.file].size

\* A part is what its file begins with, or all of it.
PartFits(part, size) ==
    /\ part.offset <= size
    /\ IF part.complete THEN part.offset = size ELSE Len(part.got) = part.offset

ReceiverFits(m, q) ==
    /\ q.pc = "resume" => q.file # 0 /\ Len(q.parts) = q.file - 1
    /\ q.pc \in Saving => q.file # 0 /\ Len(q.parts) = NumFiles
    /\ q.pc \in Saving \ {"open"} => q.file \in Files
    /\ q.pc \in {"resume"} \cup Saving =>
          \A i \in 1 .. Len(q.parts) : PartFits(q.parts[i], m[i].size)
    /\ q.pc = "receive" => Len(q.got) <= m[q.file].size

\* The sender goes on from what the receiver has.
Agrees(p, q, b) ==
    q.pc \in Saving =>
        /\ p.pc = "offered" =>
              \A i \in Files : b[1].offsets[i] = q.parts[i].offset
        /\ p.pc = "sending" =>
              \A i \in Files : p.offsets[i] = q.parts[i].offset

\* Nothing is sent between place n of file f and place k of file g.
Meets(m, q, f, n, g, k) ==
    \/ f = g /\ n = k
    \/ /\ f < g
       /\ n = m[f].size /\ k = q.parts[g].offset
       /\ \A h \in f + 1 .. g - 1 : q.parts[h].offset = m[h].size

\* The place the receiver expects the next chunk for.
Expected(m, q) ==
    CASE q.pc = "open" -> q.parts[q.file].offset
      [] q.pc = "receive" -> Len(q.got)
      [] OTHER -> m[q.file].size

\* The chunks on the wire follow one another from where the receiver is to where
\* the sender is; with none of them either may have gone on to a later file.
InOrder(m, p, q, w) ==
    q.pc \in Saving /\ q.file \in Files =>
        /\ \A k \in 1 .. Len(w) :
              w[k].file \in Files /\ w[k].at < m[w[k].file].size
        /\ \A k \in 2 .. Len(w) :
              Meets(m, q, w[k - 1].file, w[k - 1].at + 1, w[k].file, w[k].at)
        /\ w # <<>> => Meets(m, q, q.file, Expected(m, q), w[1].file, w[1].at)
        /\ p.pc = "sending" /\ w # <<>> =>
              Meets(m, q, w[Len(w)].file, w[Len(w)].at + 1, p.file, p.pos)
        /\ p.pc = "sending" /\ w = <<>> =>
              \/ Meets(m, q, q.file, Expected(m, q), p.file, p.pos)
              \/ Meets(m, q, p.file, p.pos, q.file, Expected(m, q))
        /\ p.pc = "offered" =>
              /\ w = <<>>
              /\ Meets(m, q, 1, q.parts[1].offset, q.file, Expected(m, q))

StreamInv(m, p, q, w, b) ==
    /\ StreamTypes(m, p, q, w, b)
    /\ HasManifest(m, p, q, w)
    /\ TakesTurns(p, q, w, b)
    /\ SenderFits(m, p, b)
    /\ ReceiverFits(m, q)
    /\ Agrees(p, q, b)
    /\ InOrder(m, p, q, w)

Stream(s) == StreamInv(manifest[s], snd[s], rcv[s], wire[s], back[s])

StreamsInv == \A s \in Senders : Stream(s)

StreamVars ==
    /\ up \in [Senders -> BOOLEAN]
    /\ manifest \in [Senders -> Seq(Entry)]
    /\ snd \in [Senders -> Senderly]
    /\ rcv \in [Senders -> Receiverly]
    /\ wire \in [Senders -> Seq(Piece)]
    /\ back \in [Senders -> Seq(Answer)]

TransferInv == OfferInv /\ StreamVars /\ StreamsInv /\ FolderTypes

-----------------------------------------------------------------------------
(* Steps of a sender, said of the values of one stream.                    *)

\* Send returns.
LEMMA SenderReturns ==
    ASSUME NEW m, NEW p, NEW q, NEW w, NEW b, StreamInv(m, p, q, w, b),
           NEW pc \in {"idle", "gone", "delivered"},
           p.pc # "idle", p.pc = "offered" => pc = "idle",
           pc = "delivered" => p.pc = "flushed"
    PROVE  StreamInv(m, Sender(pc), q, w, b)
<1> DEFINE r == Sender(pc)
<1>1. r.pc = pc /\ r \in Senderly
  BY OfferAssumption DEF Sender, Senderly, SendLabels
<1> HIDE DEF r
<1>2. StreamTypes(m, r, q, w, b)
  BY <1>1 DEF StreamInv, StreamTypes
<1>3. HasManifest(m, r, q, w)
  BY <1>1 DEF StreamInv, HasManifest
<1>4. TakesTurns(r, q, w, b)
  BY <1>1 DEF StreamInv, TakesTurns
<1>5. SenderFits(m, r, b)
  BY <1>1 DEF StreamInv, SenderFits
<1>6. Agrees(r, q, b) /\ InOrder(m, r, q, w)
  BY <1>1 DEF StreamInv, Agrees, InOrder
<1> QED BY <1>2, <1>3, <1>4, <1>5, <1>6 DEF StreamInv, r

\* The files have been read, so the sender looks at each again.
LEMMA SenderChecks ==
    ASSUME NEW m, NEW p, NEW q, NEW w, NEW b, StreamInv(m, p, q, w, b),
           p.pc = "waiting"
    PROVE  StreamInv(m, Sender("checking"), q, w, b)
<1> DEFINE r == Sender("checking")
<1>1. r.pc = "checking" /\ r \in Senderly
  BY OfferAssumption DEF Sender, Senderly, SendLabels
<1> HIDE DEF r
<1>2. StreamTypes(m, r, q, w, b)
  BY <1>1 DEF StreamInv, StreamTypes
<1>3. HasManifest(m, r, q, w) /\ TakesTurns(r, q, w, b)
  BY <1>1 DEF StreamInv, HasManifest, TakesTurns
<1>4. SenderFits(m, r, b) /\ Agrees(r, q, b) /\ InOrder(m, r, q, w)
  BY <1>1 DEF StreamInv, SenderFits, Agrees, InOrder
<1> QED BY <1>2, <1>3, <1>4 DEF StreamInv, r

\* The manifest goes to a receiver that has heard nothing yet.
LEMMA ManifestIsSent ==
    ASSUME NEW m, NEW p, NEW q, NEW w, NEW b, StreamInv(m, p, q, w, b),
           p.pc = "checking", NEW m2 \in [Files -> Entry]
    PROVE  StreamInv(m2, Sender("offered"), q, <<ManifestLine>>, b)
<1> DEFINE r == Sender("offered")
           v == <<ManifestLine>>
<1>1. r.pc = "offered" /\ r \in Senderly
  BY OfferAssumption DEF Sender, Senderly, SendLabels
<1>2. v \in Seq(Piece) /\ v # <<>>
  BY OfferAssumption DEF ManifestLine, Piece
<1>3. m2 \in Seq(Entry) /\ DOMAIN m2 = Files
  BY OfferAssumption DEF Files
<1>4. b = <<>> /\ q.pc \in {"offer", "failed"}
  BY DEF StreamInv, TakesTurns
<1> HIDE DEF r
<1>5. StreamTypes(m2, r, q, v, b)
  BY <1>1, <1>2, <1>3 DEF StreamInv, StreamTypes
<1>6. HasManifest(m2, r, q, v)
  BY <1>3 DEF HasManifest
<1>7. TakesTurns(r, q, v, b)
  BY <1>1, <1>4 DEF TakesTurns, Saving, Finishing
<1>8. SenderFits(m2, r, b) /\ ReceiverFits(m2, q) /\ Agrees(r, q, b) /\ InOrder(m2, r, q, v)
  BY <1>1, <1>4 DEF SenderFits, ReceiverFits, Agrees, InOrder, Saving
<1> QED BY <1>5, <1>6, <1>7, <1>8 DEF StreamInv, r

\* The sender takes the offsets up.
LEMMA OffsetsAreTaken ==
    ASSUME NEW m, NEW p, NEW q, NEW w, NEW b, StreamInv(m, p, q, w, b),
           p.pc = "offered", b # <<>>, Head(b).ok
    PROVE  LET offsets == Head(b).offsets IN
           StreamInv(m, [pc |-> "sending", file |-> 1, pos |-> offsets[1],
                         offsets |-> offsets],
                     q, w, Tail(b))
<1> DEFINE o == Head(b).offsets
           r == [pc |-> "sending", file |-> 1, pos |-> o[1], offsets |-> o]
           c == Tail(b)
<1>1. b \in Seq(Answer) /\ Head(b) = b[1] /\ b[1] \in Answer
  BY DEF StreamInv, StreamTypes
<1>2. o \in Seq(Nat) /\ Fit(o, m) /\ c \in Seq(Answer)
  BY <1>1 DEF StreamInv, SenderFits, Answer
<1>3. 1 \in Files /\ o[1] \in Nat /\ NumFiles \in Nat
  BY <1>2, OfferAssumption DEF Files, Fit
<1>4. r \in Senderly /\ r.pc = "sending" /\ r.file = 1 /\ r.pos = o[1] /\ r.offsets = o
  BY <1>2, <1>3 DEF Senderly, SendLabels, Files
<1>5. q.pc \notin {"offer", "sweep", "resume"}
  BY DEF StreamInv, TakesTurns
<1>6. DOMAIN m = Files
  BY DEF StreamInv, HasManifest
<1> HIDE DEF r, c, o
<1>7. StreamTypes(m, r, q, w, c)
  BY <1>2, <1>4 DEF StreamInv, StreamTypes
<1>8. HasManifest(m, r, q, w)
  BY <1>6 DEF HasManifest
<1>9. TakesTurns(r, q, w, c)
  BY <1>4, <1>5 DEF TakesTurns
<1>10. SenderFits(m, r, c)
  BY <1>2, <1>3, <1>4 DEF SenderFits, Fit
<1>11. Agrees(r, q, c)
  BY <1>1, <1>4 DEF StreamInv, Agrees, o
<1>12. InOrder(m, r, q, w)
  <2> SUFFICES ASSUME q.pc \in Saving, q.file \in Files PROVE InOrder(m, r, q, w)
    BY DEF InOrder
  <2>1. w = <<>> /\ Meets(m, q, 1, q.parts[1].offset, q.file, Expected(m, q))
    BY DEF StreamInv, InOrder
  <2>2. q.parts[1].offset = o[1]
    BY <1>1, <1>3 DEF StreamInv, Agrees, o
  <2> QED BY <1>4, <2>1, <2>2 DEF InOrder
<1> QED BY <1>7, <1>8, <1>9, <1>10, <1>11, <1>12 DEF StreamInv, r, c, o

\* The sender has sent a chunk from where it is.
LEMMA ChunkIsSent ==
    ASSUME NEW m, NEW p, NEW q, NEW w, NEW b, StreamInv(m, p, q, w, b),
           p.pc = "sending", p.pos < m[p.file].size, NEW x \in Nat
    PROVE  StreamInv(m, [p EXCEPT !.pos = @ + 1], q,
                     Append(w, [file |-> p.file, at |-> p.pos, chunk |-> x]), b)
<1> DEFINE r == [p EXCEPT !.pos = @ + 1]
           y == [file |-> p.file, at |-> p.pos, chunk |-> x]
           v == Append(w, y)
<1>1. /\ p \in Senderly /\ q \in Receiverly /\ w \in Seq(Piece)
      /\ m \in Seq(Entry) /\ DOMAIN m = Files /\ b \in Seq(Answer)
  BY DEF StreamInv, StreamTypes, HasManifest
<1>2. p.file \in Files /\ Fit(p.offsets, m) /\ m[p.file] \in Entry
  BY <1>1 DEF StreamInv, SenderFits
<1>3. /\ r.pc = "sending" /\ r.file = p.file /\ r.pos = p.pos + 1 /\ r.offsets = p.offsets
      /\ r \in Senderly
  <2>1. p.pos + 1 \in Nat
    BY <1>1 DEF Senderly
  <2>2. r.pc = "sending" /\ r.file = p.file /\ r.pos = p.pos + 1 /\ r.offsets = p.offsets
    BY <1>1, <2>1 DEF Senderly
  <2>3. r \in Senderly
    BY <1>1, <2>1 DEF Senderly
  <2> QED BY <2>2, <2>3
<1>4. y \in Piece /\ y.file = p.file /\ y.at = p.pos
  BY <1>1 DEF Piece, Senderly
<1> HIDE DEF y
<1>5. /\ v \in Seq(Piece) /\ Len(v) = Len(w) + 1 /\ v # <<>> /\ Len(w) \in Nat
      /\ v[Len(v)] = y
      /\ \A k \in 1 .. Len(w) : v[k] = w[k]
  BY <1>1, <1>4
<1> HIDE DEF v, r
<1>6. StreamTypes(m, r, q, v, b)
  BY <1>1, <1>3, <1>5 DEF StreamInv, StreamTypes
<1>7. HasManifest(m, r, q, v)
  BY <1>1 DEF HasManifest
<1>8. q.pc \notin {"offer", "sweep", "resume"}
  BY DEF StreamInv, TakesTurns
<1>9. TakesTurns(r, q, v, b)
  BY <1>3, <1>8 DEF TakesTurns
<1>10. SenderFits(m, r, b)
  BY <1>1, <1>2, <1>3 DEF SenderFits, Entry, Senderly
<1>11. Agrees(r, q, b)
  BY <1>3 DEF StreamInv, Agrees
<1>12. InOrder(m, r, q, v)
  <2> SUFFICES ASSUME q.pc \in Saving, q.file \in Files PROVE InOrder(m, r, q, v)
    BY DEF InOrder
  <2>1. InOrder(m, p, q, w)
    BY DEF StreamInv
  <2>2. ASSUME NEW k \in 1 .. Len(v)
        PROVE  v[k].file \in Files /\ v[k].at < m[v[k].file].size
    <3>1. CASE k = Len(v)
      BY <1>2, <1>4, <1>5, <3>1
    <3>2. CASE k \in 1 .. Len(w)
      BY <1>5, <2>1, <3>2 DEF InOrder
    <3> QED BY <1>5, <3>1, <3>2
  <2>3. w # <<>> => v[Len(v) - 1] = w[Len(w)] /\ v[1] = w[1]
    BY <1>1, <1>5
  <2>4. ASSUME NEW k \in 2 .. Len(v)
        PROVE  Meets(m, q, v[k - 1].file, v[k - 1].at + 1, v[k].file, v[k].at)
    <3>1. CASE k = Len(v)
      <4>1. w # <<>>
        BY <1>1, <1>5, <3>1
      <4>2. Meets(m, q, w[Len(w)].file, w[Len(w)].at + 1, p.file, p.pos)
        BY <2>1, <4>1 DEF InOrder
      <4> QED BY <1>4, <1>5, <2>3, <3>1, <4>1, <4>2
    <3>2. CASE k \in 2 .. Len(w)
      <4>1. v[k] = w[k] /\ v[k - 1] = w[k - 1]
        BY <1>5, <3>2
      <4> QED BY <2>1, <3>2, <4>1 DEF InOrder
    <3> QED BY <1>5, <3>1, <3>2
  <2>5. Meets(m, q, q.file, Expected(m, q), v[1].file, v[1].at)
    <3>1. CASE w # <<>>
      BY <2>1, <2>3, <3>1 DEF InOrder
    <3>2. CASE w = <<>>
      <4>1. v[1] = y
        BY <1>5, <3>2
      <4>2. \/ Meets(m, q, q.file, Expected(m, q), p.file, p.pos)
            \/ Meets(m, q, p.file, p.pos, q.file, Expected(m, q))
        BY <2>1, <3>2 DEF InOrder
      <4>3. Meets(m, q, q.file, Expected(m, q), p.file, p.pos)
        BY <1>1, <1>2, <4>2 DEF Meets, Entry, Senderly
      <4> QED BY <1>4, <4>1, <4>3
    <3> QED BY <3>1, <3>2
  <2>6. Meets(m, q, v[Len(v)].file, v[Len(v)].at + 1, r.file, r.pos)
    BY <1>3, <1>4, <1>5 DEF Meets
  <2> QED BY <1>3, <1>5, <2>2, <2>4, <2>5, <2>6 DEF InOrder
<1> QED BY <1>6, <1>7, <1>9, <1>10, <1>11, <1>12 DEF StreamInv, r, v, y

\* The sender is done with a file.
LEMMA FileEnds ==
    ASSUME NEW m, NEW p, NEW q, NEW w, NEW b, StreamInv(m, p, q, w, b),
           p.pc = "sending", ~(p.pos < m[p.file].size)
    PROVE  StreamInv(m, IF p.file = NumFiles THEN Sender("flushed")
                        ELSE [p EXCEPT !.file = @ + 1, !.pos = p.offsets[p.file + 1]],
                     q, w, b)
<1> DEFINE r == IF p.file = NumFiles THEN Sender("flushed")
                ELSE [p EXCEPT !.file = @ + 1, !.pos = p.offsets[p.file + 1]]
           g == p.file + 1
<1>1. /\ p \in Senderly /\ q \in Receiverly /\ w \in Seq(Piece)
      /\ m \in Seq(Entry) /\ DOMAIN m = Files
  BY DEF StreamInv, StreamTypes, HasManifest
<1>2. /\ p.file \in Files /\ Fit(p.offsets, m) /\ m[p.file] \in Entry
      /\ p.pos = m[p.file].size
  <2>1. p.file \in Files /\ Fit(p.offsets, m) /\ p.pos <= m[p.file].size
    BY DEF StreamInv, SenderFits
  <2>2. m[p.file] \in Entry
    BY <1>1, <2>1
  <2>3. m[p.file].size \in Nat /\ p.pos \in Nat
    BY <1>1, <2>2 DEF Entry, Senderly
  <2> QED BY <2>1, <2>2, <2>3
<1>3. q.pc \notin {"offer", "sweep", "resume"} /\ NumFiles \in Nat
  BY OfferAssumption DEF StreamInv, TakesTurns
<1>4. r.pc = IF p.file = NumFiles THEN "flushed" ELSE "sending"
  BY <1>1 DEF Sender, Senderly
<1>5. p.file # NumFiles =>
        /\ r.file = g /\ r.pos = p.offsets[g] /\ r.offsets = p.offsets
        /\ g \in Files /\ p.offsets[g] \in Nat /\ r \in Senderly
  <2> HAVE p.file # NumFiles
  <2>1. r = [p EXCEPT !.file = @ + 1, !.pos = p.offsets[p.file + 1]]
    OBVIOUS
  <2>2. g \in Files /\ p.offsets \in Seq(Nat)
    BY <1>1, <1>2, <1>3 DEF Files, Senderly
  <2>3. p.offsets[g] \in Nat
    BY <1>2, <2>2 DEF Fit
  <2> DEFINE x == p.offsets[g]
  <2> HIDE DEF x
  <2>4. r = [p EXCEPT !.file = g, !.pos = x]
    BY <2>1 DEF x
  <2> HIDE DEF r
  <2>5. x \in Nat /\ g \in 0 .. NumFiles
    BY <2>2, <2>3 DEF x, Files
  <2>6. r.file = g /\ r.pos = x /\ r.offsets = p.offsets
    BY <1>1, <2>4, <2>5 DEF Senderly
  <2>7. r \in Senderly
    BY <1>1, <2>4, <2>5 DEF Senderly
  <2> QED BY <2>2, <2>3, <2>6, <2>7 DEF x
<1>6. r \in Senderly
  BY <1>3, <1>5 DEF Sender, Senderly, SendLabels
<1> HIDE DEF r
<1>7. StreamTypes(m, r, q, w, b)
  BY <1>6 DEF StreamInv, StreamTypes
<1>8. HasManifest(m, r, q, w) /\ TakesTurns(r, q, w, b)
  BY <1>1, <1>3, <1>4 DEF HasManifest, TakesTurns
<1>9. SenderFits(m, r, b)
  BY <1>2, <1>4, <1>5 DEF SenderFits, Fit
<1>10. Agrees(r, q, b)
  BY <1>4, <1>5 DEF StreamInv, Agrees
<1>11. InOrder(m, r, q, w)
  <2> SUFFICES ASSUME q.pc \in Saving, q.file \in Files PROVE InOrder(m, r, q, w)
    BY DEF InOrder
  <2>1. InOrder(m, p, q, w)
    BY DEF StreamInv
  <2>2. CASE p.file = NumFiles
    BY <1>4, <2>1, <2>2 DEF InOrder
  <2>3. CASE p.file # NumFiles
    <3>1. q.parts[g].offset = p.offsets[g] /\ q.parts[p.file].offset = p.offsets[p.file]
      BY <1>2, <1>5, <2>3 DEF StreamInv, Agrees
    <3>2. ASSUME NEW f \in Files, NEW n, Meets(m, q, f, n, p.file, p.pos)
          PROVE  Meets(m, q, f, n, g, p.offsets[g])
      BY <1>2, <3>1, <3>2 DEF Meets, Files
    <3>3. ASSUME NEW f \in Files, NEW n, Meets(m, q, p.file, p.pos, f, n)
          PROVE  \/ Meets(m, q, f, n, g, p.offsets[g])
                 \/ Meets(m, q, g, p.offsets[g], f, n)
      <4>1. CASE f = p.file
        BY <1>2, <3>1, <3>3, <4>1 DEF Meets, Files
      <4>2. CASE f = g
        BY <1>2, <3>1, <3>3, <4>2 DEF Meets, Files
      <4>3. CASE f > g
        BY <1>2, <3>1, <3>3, <4>3 DEF Meets, Files
      <4> QED BY <1>2, <3>3, <4>1, <4>2, <4>3 DEF Meets, Files
    <3>4. w # <<>> => w[Len(w)].file \in Files
      BY <1>1, <2>1 DEF InOrder
    <3>5. w # <<>> => Meets(m, q, w[Len(w)].file, w[Len(w)].at + 1, r.file, r.pos)
      BY <1>5, <2>1, <2>3, <3>2, <3>4 DEF InOrder
    <3>6. w = <<>> => \/ Meets(m, q, q.file, Expected(m, q), r.file, r.pos)
                     \/ Meets(m, q, r.file, r.pos, q.file, Expected(m, q))
      BY <1>5, <2>1, <2>3, <3>2, <3>3 DEF InOrder
    <3> QED BY <1>4, <2>1, <2>3, <3>5, <3>6 DEF InOrder
  <2> QED BY <2>2, <2>3
<1> QED BY <1>7, <1>8, <1>9, <1>10, <1>11 DEF StreamInv, r

-----------------------------------------------------------------------------
(* Steps of a receiver, said of the values of one stream.                  *)

\* Receivers that have nothing open and no parts.
LEMMA FreshReceiver ==
    ASSUME NEW pc \in ReceiveLabels
    PROVE  /\ Receiver(pc) \in Receiverly
           /\ Receiver(pc).pc = pc /\ Receiver(pc).file = 0
           /\ Receiver(pc).parts = <<>> /\ Receiver(pc).fd = 0
BY OfferAssumption, TransferAssumption DEF Receiver, Receiverly, Chunks

\* A stream before its first attempt, and at the beginning of one.
LEMMA AttemptStarts ==
    ASSUME NEW from \in {"idle", "waiting"}, NEW to \in {"failed", "offer"}
    PROVE  StreamInv(<<>>, Sender(from), Receiver(to), <<>>, <<>>)
<1> DEFINE p == Sender(from)
           q == Receiver(to)
<1>1. p.pc = from /\ p \in Senderly
  BY OfferAssumption DEF Sender, Senderly, SendLabels
<1>2. q.pc = to /\ q.fd = 0 /\ q \in Receiverly
  BY FreshReceiver DEF ReceiveLabels
<1> HIDE DEF p, q
<1>3. StreamTypes(<<>>, p, q, <<>>, <<>>)
  BY <1>1, <1>2 DEF StreamTypes
<1>4. HasManifest(<<>>, p, q, <<>>) /\ TakesTurns(p, q, <<>>, <<>>)
  BY <1>1, <1>2 DEF HasManifest, TakesTurns, Saving, Finishing
<1>5. /\ SenderFits(<<>>, p, <<>>) /\ ReceiverFits(<<>>, q)
      /\ Agrees(p, q, <<>>) /\ InOrder(<<>>, p, q, <<>>)
  BY <1>1, <1>2 DEF SenderFits, ReceiverFits, Agrees, InOrder, Saving
<1> QED BY <1>3, <1>4, <1>5 DEF StreamInv, p, q

\* The receiver reads the manifest: the only thing on the wire.
LEMMA OfferIsTaken ==
    ASSUME NEW m, NEW p, NEW q, NEW w, NEW b, StreamInv(m, p, q, w, b),
           q.pc = "offer", w # <<>>
    PROVE  StreamInv(m, p, Receiver("sweep"), Tail(w), b)
<1> DEFINE r == Receiver("sweep")
           v == Tail(w)
<1>1. r.pc = "sweep" /\ r.fd = 0 /\ r \in Receiverly
  BY FreshReceiver DEF ReceiveLabels
<1>2. /\ b = <<>> /\ w = <<ManifestLine>> /\ p \in Senderly
      /\ p.pc \notin {"waiting", "checking", "sending", "flushed", "delivered"}
  BY DEF StreamInv, StreamTypes, TakesTurns
<1>3. v = <<>>
  BY <1>2
<1> HIDE DEF r, v
<1>4. StreamTypes(m, p, r, v, b)
  BY <1>1, <1>3 DEF StreamInv, StreamTypes
<1>5. HasManifest(m, p, r, v)
  BY DEF StreamInv, HasManifest
<1>6. TakesTurns(p, r, v, b)
  BY <1>1, <1>2, <1>3 DEF TakesTurns, Saving, Finishing, Senderly, SendLabels
<1>7. SenderFits(m, p, b) /\ ReceiverFits(m, r) /\ Agrees(p, r, b) /\ InOrder(m, p, r, v)
  BY <1>1 DEF StreamInv, SenderFits, ReceiverFits, Agrees, InOrder, Saving
<1> QED BY <1>4, <1>5, <1>6, <1>7 DEF StreamInv, r, v

\* Receive returns an error, or the receiver dies.
LEMMA ReceiverStops ==
    ASSUME NEW m, NEW p, NEW q, NEW w, NEW b, StreamInv(m, p, q, w, b),
           NEW said \in {<<>>, <<Refusal>>}, q.pc # "failed",
           q.pc = "offer" => said = <<>>
    PROVE  StreamInv(m, p, Receiver("failed"), w, b \o said)
<1> DEFINE r == Receiver("failed")
           c == b \o said
<1>1. r.pc = "failed" /\ r.fd = 0 /\ r \in Receiverly
  BY FreshReceiver DEF ReceiveLabels
<1>2. said \in Seq(Answer) /\ b \in Seq(Answer)
  <2>1. Refusal \in Answer
    BY DEF Refusal, Answer
  <2>2. <<Refusal>> \in Seq(Answer) /\ <<>> \in Seq(Answer)
    BY <2>1
  <2> HIDE DEF Refusal
  <2> QED BY <2>2 DEF StreamInv, StreamTypes
<1>3. /\ c \in Seq(Answer)
      /\ c # <<>> => (c[1] = b[1] /\ b # <<>>) \/ c[1] = Refusal
      /\ said = <<>> => c = b
  BY <1>2
<1> HIDE DEF r, c
<1>4. StreamTypes(m, p, r, w, c)
  BY <1>1, <1>3 DEF StreamInv, StreamTypes
<1>5. HasManifest(m, p, r, w)
  BY <1>1 DEF StreamInv, HasManifest, Saving
<1>6. TakesTurns(p, r, w, c)
  BY <1>1, <1>3 DEF StreamInv, TakesTurns, Saving, Finishing
<1>7. SenderFits(m, p, c)
  BY <1>3 DEF StreamInv, SenderFits, Refusal
<1>8. ReceiverFits(m, r) /\ Agrees(p, r, c) /\ InOrder(m, p, r, w)
  BY <1>1 DEF ReceiverFits, Agrees, InOrder, Saving
<1> QED BY <1>4, <1>5, <1>6, <1>7, <1>8 DEF StreamInv, r, c

\* The receiver begins to look for leftovers, at its first file.
LEMMA PartsAreSwept ==
    ASSUME NEW m, NEW p, NEW q, NEW w, NEW b, StreamInv(m, p, q, w, b),
           q.pc = "sweep", NEW r \in Receiverly,
           r.pc = "resume", r.file = 1, r.parts = <<>>, r.fd = 0
    PROVE  StreamInv(m, p, r, w, b)
<1>1. StreamTypes(m, p, r, w, b)
  BY DEF StreamInv, StreamTypes
<1>2. HasManifest(m, p, r, w) /\ TakesTurns(p, r, w, b) /\ SenderFits(m, p, b)
  BY DEF StreamInv, HasManifest, TakesTurns, Saving, Finishing
<1>3. ReceiverFits(m, r)
  BY DEF ReceiverFits, Saving
<1>4. Agrees(p, r, b) /\ InOrder(m, p, r, w)
  BY DEF Agrees, InOrder, Saving
<1> QED BY <1>1, <1>2, <1>3, <1>4 DEF StreamInv

\* resumeFrom has found a part of the next file, or all of it.
LEMMA PartIsFound ==
    ASSUME NEW m, NEW p, NEW q, NEW w, NEW b, StreamInv(m, p, q, w, b),
           q.pc = "resume", q.file \in Files,
           NEW part \in Part, PartFits(part, m[q.file].size),
           NEW r \in Receiverly, r.pc = "resume", r.file = q.file + 1,
           r.parts = Append(q.parts, part), r.fd = q.fd
    PROVE  StreamInv(m, p, r, w, b)
<1>1. q \in Receiverly /\ q.parts \in Seq(Part) /\ Len(q.parts) = q.file - 1
  BY DEF StreamInv, StreamTypes, ReceiverFits, Receiverly
<1>2. StreamTypes(m, p, r, w, b)
  BY DEF StreamInv, StreamTypes
<1>3. HasManifest(m, p, r, w) /\ TakesTurns(p, r, w, b) /\ SenderFits(m, p, b)
  BY DEF StreamInv, HasManifest, TakesTurns, Saving, Finishing
<1>4. ReceiverFits(m, r)
  <2>1. Len(r.parts) = q.file /\ q.file \in Nat
    BY <1>1 DEF Files
  <2>2. ASSUME NEW i \in 1 .. Len(r.parts)
        PROVE  PartFits(r.parts[i], m[i].size)
    <3>1. CASE i = q.file
      BY <1>1, <2>1, <3>1
    <3>2. CASE i # q.file
      <4>1. i \in 1 .. Len(q.parts) /\ r.parts[i] = q.parts[i]
        BY <1>1, <2>1, <3>2
      <4> QED BY <4>1 DEF StreamInv, ReceiverFits
    <3> QED BY <3>1, <3>2
  <2> QED BY <2>1, <2>2 DEF ReceiverFits, Saving
<1>5. Agrees(p, r, b) /\ InOrder(m, p, r, w)
  BY DEF Agrees, InOrder, Saving
<1> QED BY <1>2, <1>3, <1>4, <1>5 DEF StreamInv

\* The receiver says what it has, and goes on with its first file.
LEMMA OfferIsAccepted ==
    ASSUME NEW m, NEW p, NEW q, NEW w, NEW b, StreamInv(m, p, q, w, b),
           q.pc = "resume", q.file = NumFiles + 1,
           NEW r \in Receiverly, r.pc = "open", r.file = 1,
           r.parts = q.parts, r.fd = q.fd
    PROVE  StreamInv(m, p, r, w,
                     Append(b, Accept([i \in Files |-> q.parts[i].offset])))
<1> DEFINE o == [i \in Files |-> q.parts[i].offset]
           c == Append(b, Accept(o))
<1>1. /\ q \in Receiverly /\ q.parts \in Seq(Part) /\ Len(q.parts) = NumFiles
      /\ b = <<>> /\ w = <<>> /\ p.pc \in {"offered", "idle", "gone"}
      /\ q.fd = 0
  BY OfferAssumption DEF StreamInv, StreamTypes, ReceiverFits, Receiverly, TakesTurns
<1>2. NumFiles \in Nat /\ 1 \in Files
  BY OfferAssumption DEF Files
<1>3. \A i \in Files : q.parts[i] \in Part /\ PartFits(q.parts[i], m[i].size)
  BY <1>1, <1>2 DEF StreamInv, ReceiverFits, Files
<1>4. o \in Seq(Nat) /\ DOMAIN o = Files
  <2>1. o \in [Files -> Nat]
    BY <1>3 DEF Part
  <2> QED BY <1>2, <2>1 DEF Files
<1>5. Fit(o, m)
  BY <1>3, <1>4 DEF Fit, PartFits
<1> DEFINE a == Accept(o)
<1>6. a \in Answer /\ a.ok /\ a.offsets = o
  BY <1>4 DEF Accept, Answer
<1> HIDE DEF a
<1>7. c \in Seq(Answer) /\ c # <<>> /\ c[1] = a
  BY <1>1, <1>6 DEF a
<1>8. \A i \in Files : c[1].offsets[i] = q.parts[i].offset
  BY <1>6, <1>7
<1> HIDE DEF c
<1>9. StreamTypes(m, p, r, w, c)
  BY <1>1, <1>7 DEF StreamInv, StreamTypes
<1>10. HasManifest(m, p, r, w)
  BY DEF StreamInv, HasManifest, Saving
<1>11. TakesTurns(p, r, w, c)
  BY <1>1, <1>6, <1>7 DEF TakesTurns
<1>12. SenderFits(m, p, c)
  BY <1>1, <1>5, <1>6, <1>7 DEF SenderFits
<1>13. ReceiverFits(m, r)
  BY <1>1, <1>2, <1>3 DEF ReceiverFits, Saving, Files
<1>14. Agrees(p, r, c)
  BY <1>1, <1>8 DEF Agrees
<1>15. InOrder(m, p, r, w)
  BY <1>1, <1>2 DEF InOrder, Meets, Expected
<1> QED BY <1>9, <1>10, <1>11, <1>12, <1>13, <1>14, <1>15 DEF StreamInv, c, a

\* A step within a file, while parts are saved.
LEMMA SavingGoesOn ==
    ASSUME NEW m, NEW p, NEW q, NEW w, NEW b, StreamInv(m, p, q, w, b),
           q.pc \in Saving, q.file \in Files,
           NEW r \in Receiverly, r.pc \in Saving, r.file = q.file, r.parts = q.parts,
           r.pc = "receive" <=> r.fd # 0,
           r.pc = "receive" => Len(r.got) <= m[q.file].size,
           Expected(m, r) = Expected(m, q)
    PROVE  StreamInv(m, p, r, w, b)
<1>1. StreamTypes(m, p, r, w, b)
  BY DEF StreamInv, StreamTypes
<1>2. HasManifest(m, p, r, w) /\ TakesTurns(p, r, w, b) /\ SenderFits(m, p, b)
  BY DEF StreamInv, HasManifest, TakesTurns, Saving, Finishing
<1>3. ReceiverFits(m, r)
  BY DEF StreamInv, ReceiverFits, Saving, Files
<1>4. Agrees(p, r, b)
  BY DEF StreamInv, Agrees
<1>5. InOrder(m, p, r, w)
  BY DEF StreamInv, InOrder, Meets
<1> QED BY <1>1, <1>2, <1>3, <1>4, <1>5 DEF StreamInv

\* The receiver is done with a file it has all of.
LEMMA FileIsSaved ==
    ASSUME NEW m, NEW p, NEW q, NEW w, NEW b, StreamInv(m, p, q, w, b),
           q.pc \in Saving, q.file \in Files, Expected(m, q) = m[q.file].size,
           NEW r \in Receiverly, r.pc = "open", r.file = q.file + 1,
           r.parts = q.parts, r.fd = 0
    PROVE  StreamInv(m, p, r, w, b)
<1> DEFINE f == q.file
           g == r.file
<1>1. /\ p \in Senderly /\ q \in Receiverly /\ w \in Seq(Piece)
      /\ m \in Seq(Entry) /\ DOMAIN m = Files /\ NumFiles \in Nat
  BY OfferAssumption DEF StreamInv, StreamTypes, HasManifest
<1>2. m[f] \in Entry /\ f \in Int /\ g = f + 1
  BY <1>1 DEF Files
<1>3. StreamTypes(m, p, r, w, b)
  BY DEF StreamInv, StreamTypes
<1>4. HasManifest(m, p, r, w) /\ TakesTurns(p, r, w, b) /\ SenderFits(m, p, b)
  BY DEF StreamInv, HasManifest, TakesTurns, Saving, Finishing
<1>5. ReceiverFits(m, r)
  BY <1>1, <1>2 DEF StreamInv, ReceiverFits, Saving, Files
<1>6. Agrees(p, r, b)
  BY DEF StreamInv, Agrees, Saving
<1>7. InOrder(m, p, r, w)
  <2> SUFFICES ASSUME g \in Files PROVE InOrder(m, p, r, w)
    BY DEF InOrder
  <2>1. InOrder(m, p, q, w)
    BY DEF StreamInv
  <2>2. Expected(m, r) = q.parts[g].offset
    BY DEF Expected
  <2>3. \A h, k, h2, k2 : Meets(m, r, h, k, h2, k2) <=> Meets(m, q, h, k, h2, k2)
    BY DEF Meets
  <2>4. ASSUME NEW h \in Files, NEW k, k # m[h].size,
               Meets(m, q, f, m[f].size, h, k)
        PROVE  Meets(m, q, g, q.parts[g].offset, h, k)
    BY <1>1, <1>2, <2>4 DEF Meets, Files
  <2>5. ASSUME NEW h \in Files, NEW k, Meets(m, q, h, k, f, m[f].size)
        PROVE  Meets(m, q, h, k, g, q.parts[g].offset)
    BY <1>1, <1>2, <2>5 DEF Meets, Files
  <2>6. ASSUME NEW h \in Files, NEW k, Meets(m, q, f, m[f].size, h, k)
        PROVE  \/ Meets(m, q, g, q.parts[g].offset, h, k)
               \/ Meets(m, q, h, k, g, q.parts[g].offset)
    <3>1. CASE h = f
      BY <1>1, <1>2, <2>6, <3>1 DEF Meets, Files
    <3>2. CASE h = g
      BY <1>1, <1>2, <2>6, <3>2 DEF Meets, Files
    <3>3. CASE h > g
      BY <1>1, <1>2, <2>6, <3>3 DEF Meets, Files
    <3> QED BY <1>1, <1>2, <2>6, <3>1, <3>2, <3>3 DEF Meets, Files
  <2>7. ASSUME w # <<>>
        PROVE  Meets(m, q, g, q.parts[g].offset, w[1].file, w[1].at)
    <3>1. 1 \in 1 .. Len(w)
      BY <1>1, <2>7
    <3>2. w[1].file \in Files /\ w[1].at < m[w[1].file].size
      BY <2>1, <3>1 DEF InOrder
    <3>3. w[1].at # m[w[1].file].size
      <4>1. w[1] \in Piece /\ m[w[1].file] \in Entry
        BY <1>1, <3>1, <3>2
      <4> QED BY <3>2, <4>1 DEF Piece, Entry
    <3>4. Meets(m, q, f, m[f].size, w[1].file, w[1].at)
      BY <2>1, <2>7 DEF InOrder
    <3> QED BY <2>4, <3>2, <3>3, <3>4
  <2>8. ASSUME p.pc = "sending", w = <<>>
        PROVE  \/ Meets(m, q, g, q.parts[g].offset, p.file, p.pos)
               \/ Meets(m, q, p.file, p.pos, g, q.parts[g].offset)
    <3>1. p.file \in Files
      BY <2>8 DEF StreamInv, SenderFits
    <3>2. \/ Meets(m, q, f, m[f].size, p.file, p.pos)
          \/ Meets(m, q, p.file, p.pos, f, m[f].size)
      BY <2>1, <2>8 DEF InOrder
    <3> QED BY <2>5, <2>6, <3>1, <3>2
  <2>9. ASSUME p.pc = "offered"
        PROVE  Meets(m, q, 1, q.parts[1].offset, g, q.parts[g].offset)
    <3>1. Meets(m, q, 1, q.parts[1].offset, f, m[f].size)
      BY <2>1, <2>9 DEF InOrder
    <3>2. 1 \in Files
      BY OfferAssumption DEF Files
    <3> QED BY <2>5, <3>1, <3>2
  <2> QED BY <2>1, <2>2, <2>3, <2>7, <2>8, <2>9 DEF InOrder
<1> QED BY <1>3, <1>4, <1>5, <1>6, <1>7 DEF StreamInv

\* The receiver takes the next chunk: the one it expects.
LEMMA ChunkIsTaken ==
    ASSUME NEW m, NEW p, NEW q, NEW w, NEW b, StreamInv(m, p, q, w, b),
           q.pc = "receive", Len(q.got) < m[q.file].size, w # <<>>
    PROVE  /\ w[1].file = q.file /\ w[1].at = Len(q.got)
           /\ \A r \in Receiverly :
                 /\ r.pc = "receive" /\ r.file = q.file /\ r.parts = q.parts
                 /\ r.fd = q.fd /\ r.got = Append(q.got, w[1].chunk)
                 => StreamInv(m, p, r, Tail(w), b)
<1> DEFINE v == Tail(w)
           n == Len(q.got)
<1>1. /\ p \in Senderly /\ q \in Receiverly /\ w \in Seq(Piece) /\ b \in Seq(Answer)
      /\ m \in Seq(Entry) /\ DOMAIN m = Files /\ NumFiles \in Nat
  BY OfferAssumption DEF StreamInv, StreamTypes, HasManifest, Saving
<1>2. q.file \in Files /\ q.got \in Seq(Nat) /\ n \in Nat
  BY <1>1 DEF StreamInv, ReceiverFits, Saving, Receiverly, Chunks
<1>3. m[q.file] \in Entry /\ m[q.file].size \in Nat
  <2>1. m[q.file] \in Entry
    BY <1>1, <1>2
  <2> QED BY <2>1 DEF Entry
<1>4. InOrder(m, p, q, w) /\ q.pc \in Saving /\ Expected(m, q) = n
  BY DEF StreamInv, Saving, Expected
<1>5. w[1].file = q.file /\ w[1].at = n
  <2>1. Meets(m, q, q.file, n, w[1].file, w[1].at)
    BY <1>2, <1>4 DEF InOrder
  <2> QED BY <1>2, <1>3, <2>1 DEF Meets
<1>6. /\ v \in Seq(Piece) /\ Len(v) = Len(w) - 1 /\ Len(w) \in Nat
      /\ \A k \in 1 .. Len(v) : v[k] = w[k + 1]
      /\ v # <<>> => Len(v) > 0 /\ v[1] = w[2] /\ v[Len(v)] = w[Len(w)]
      /\ v = <<>> => Len(w) = 1
      /\ w[1] \in Piece
  <2>1. v \in Seq(Piece) /\ Len(v) = Len(w) - 1 /\ Len(w) \in Nat \ {0} /\ w[1] \in Piece
    BY <1>1
  <2>2. \A k \in 1 .. Len(v) : v[k] = w[k + 1]
    BY <1>1, <2>1
  <2> HIDE DEF v
  <2>3. v = <<>> <=> Len(v) = 0
    BY <2>1
  <2> QED BY <2>1, <2>2, <2>3
<1> HIDE DEF v
<1> SUFFICES ASSUME NEW r \in Receiverly,
                    r.pc = "receive" /\ r.file = q.file /\ r.parts = q.parts,
                    r.fd = q.fd /\ r.got = Append(q.got, w[1].chunk)
             PROVE  StreamInv(m, p, r, v, b)
  BY <1>5 DEF v
<1>7. Len(r.got) = n + 1
  <2>1. w[1].chunk \in Nat
    BY <1>6 DEF Piece
  <2> QED BY <1>2, <2>1
<1>8. StreamTypes(m, p, r, v, b)
  BY <1>6 DEF StreamInv, StreamTypes
<1>9. HasManifest(m, p, r, v)
  BY <1>1 DEF HasManifest
<1>10. p.pc \notin {"waiting", "checking"}
  BY DEF StreamInv, TakesTurns
<1>11. TakesTurns(p, r, v, b) /\ SenderFits(m, p, b)
  BY <1>10 DEF StreamInv, TakesTurns, Saving, Finishing
<1>12. ReceiverFits(m, r)
  BY <1>2, <1>3, <1>7 DEF StreamInv, ReceiverFits, Saving
<1>13. Agrees(p, r, b)
  BY DEF StreamInv, Agrees, Saving
<1>14. InOrder(m, p, r, v)
  <2>1. Expected(m, r) = n + 1
    BY <1>7 DEF Expected
  <2>2. \A h, k, h2, k2 : Meets(m, r, h, k, h2, k2) <=> Meets(m, q, h, k, h2, k2)
    BY DEF Meets
  <2>3. ASSUME NEW k \in 1 .. Len(v)
        PROVE  v[k].file \in Files /\ v[k].at < m[v[k].file].size
    <3>1. v[k] = w[k + 1] /\ k + 1 \in 1 .. Len(w)
      BY <1>6
    <3> QED BY <1>2, <1>4, <3>1 DEF InOrder
  <2>4. ASSUME NEW k \in 2 .. Len(v)
        PROVE  Meets(m, q, v[k - 1].file, v[k - 1].at + 1, v[k].file, v[k].at)
    <3>1. v[k] = w[k + 1] /\ v[k - 1] = w[k] /\ k + 1 \in 2 .. Len(w)
      BY <1>6
    <3> QED BY <1>2, <1>4, <3>1 DEF InOrder
  <2>5. v # <<>> => Meets(m, q, q.file, n + 1, v[1].file, v[1].at)
    <3> HAVE v # <<>>
    <3>1. 2 \in 2 .. Len(w)
      BY <1>6
    <3> QED BY <1>2, <1>4, <1>5, <1>6, <3>1 DEF InOrder
  <2>6. p.pc = "sending" =>
          Meets(m, q, w[Len(w)].file, w[Len(w)].at + 1, p.file, p.pos)
    BY <1>2, <1>4 DEF InOrder
  <2>7. p.pc # "offered"
    BY <1>2, <1>4 DEF InOrder
  <2> QED BY <1>5, <1>6, <2>1, <2>2, <2>3, <2>4, <2>5, <2>6, <2>7 DEF InOrder
<1> QED BY <1>8, <1>9, <1>11, <1>12, <1>13, <1>14 DEF StreamInv

\* Every file is in place.
LEMMA TransferIsAcknowledged ==
    ASSUME NEW m, NEW p, NEW q, NEW w, NEW b, StreamInv(m, p, q, w, b),
           q.pc = "open", NEW r \in Receiverly, r.pc = "forget", r.fd = q.fd
    PROVE  StreamInv(m, p, r, w, Append(b, Accept(<<>>)))
<1> DEFINE c == Append(b, Accept(<<>>))
<1>1. b \in Seq(Answer) /\ q.fd = 0
  BY DEF StreamInv, StreamTypes
<1>2. Accept(<<>>) \in Answer
  BY DEF Accept, Answer
<1>3. c \in Seq(Answer) /\ c # <<>> /\ (b # <<>> => c[1] = b[1])
  BY <1>1, <1>2
<1> HIDE DEF c
<1>4. StreamTypes(m, p, r, w, c)
  BY <1>1, <1>3 DEF StreamInv, StreamTypes
<1>5. HasManifest(m, p, r, w)
  BY DEF StreamInv, HasManifest, Saving
<1>6. TakesTurns(p, r, w, c)
  BY <1>3 DEF StreamInv, TakesTurns, Saving, Finishing
<1>7. SenderFits(m, p, c)
  BY <1>3 DEF StreamInv, SenderFits, TakesTurns, Saving
<1>8. ReceiverFits(m, r) /\ Agrees(p, r, c) /\ InOrder(m, p, r, w)
  BY DEF ReceiverFits, Agrees, InOrder, Saving
<1> QED BY <1>4, <1>5, <1>6, <1>7, <1>8 DEF StreamInv, c

\* After the acknowledgement the receiver only waits for the end.
LEMMA ReceiverFinishes ==
    ASSUME NEW m, NEW p, NEW q, NEW w, NEW b, StreamInv(m, p, q, w, b),
           q.pc \in Finishing, NEW to \in {"linger", "done"}
    PROVE  StreamInv(m, p, Receiver(to), w, b)
<1> DEFINE r == Receiver(to)
<1>1. r.pc = to /\ r.fd = 0 /\ r \in Receiverly
  BY FreshReceiver DEF ReceiveLabels
<1> HIDE DEF r
<1>2. StreamTypes(m, p, r, w, b)
  BY <1>1 DEF StreamInv, StreamTypes
<1>3. HasManifest(m, p, r, w) /\ TakesTurns(p, r, w, b) /\ SenderFits(m, p, b)
  BY <1>1 DEF StreamInv, HasManifest, TakesTurns, Saving, Finishing
<1>4. ReceiverFits(m, r) /\ Agrees(p, r, b) /\ InOrder(m, p, r, w)
  BY <1>1 DEF ReceiverFits, Agrees, InOrder, Saving
<1> QED BY <1>2, <1>3, <1>4 DEF StreamInv, r

-----------------------------------------------------------------------------
(* The sender's files.                                                     *)

\* What a content of chunks has, and where the cursor goes from a file.
LEMMA ChunksOfNumbers ==
    \A c \in Seq(Nat) : Len(c) \in Nat /\ \A k \in 1 .. Len(c) : c[k] \in Nat
OBVIOUS

LEMMA CursorGoesOn == \A i \in Files : i + 1 \in 0 .. NumFiles + 1
BY OfferAssumption DEF Files

\* Steps that touch no file of a sender and start or end no check of them.
LEMMA OfferRests ==
    ASSUME OfferInv, UNCHANGED offerVars,
           \A s \in Senders : snd'[s].pc = "checking" <=> snd[s].pc = "checking"
    PROVE  OfferInv'
BY DEF OfferInv, OfferTypes, ReadsUnderCursor, offerVars

\* One more look at a file, in the background or for a receiver.
LEMMA OfferStepHolds ==
    ASSUME OfferInv, NEW s \in Senders, UNCHANGED snd,
           Prepare(s) \/ Digest(s) \/ (snd[s].pc = "checking" /\ Recheck(s))
    PROVE  OfferInv'
<1> USE DEF OfferInv, OfferTypes, ReadsUnderCursor
<1>1. ASSUME NEW i \in Files, OpenSource(s, i), cursor[s] = i,
             \/ phase[s] = "reading"
             \/ phase[s] = "ready" /\ snd[s].pc = "checking"
      PROVE  OfferInv'
  <2>1. src[s][i].content \in Contents /\ src[s][i].stamp \in Nat
    OBVIOUS
  <2>2. Len(src[s][i].content) \in Nat
    BY <2>1, OfferAssumption
  <2>3. [file |-> i, size |-> Len(src[s][i].content), stamp |-> src[s][i].stamp,
         got |-> <<>>] \in [file : 0 .. NumFiles, size : Nat, stamp : Int, got : Chunks]
    <3>1. i \in 0 .. NumFiles /\ <<>> \in Chunks
      BY OfferAssumption DEF Files, Chunks
    <3>2. src[s][i].stamp \in Int
      BY <2>1
    <3> QED BY <2>2, <3>1, <3>2
  <2> QED BY <1>1, <2>3 DEF OpenSource
<1>2. CASE ReadNext(s)
  BY <1>1, <1>2 DEF ReadNext
<1>3. CASE ReadFails(s)
  <2>1. /\ reading[s].file = 0 /\ phase' = [phase EXCEPT ![s] = "failed"]
        /\ phase[s] = "reading"
        /\ cursor' = [cursor EXCEPT ![s] = 0] /\ UNCHANGED <<src, reading, digests>>
    BY <1>3 DEF ReadFails
  <2>2. 0 \in 0 .. NumFiles + 1 /\ "failed" \in Phases
    BY OfferAssumption DEF Phases
  <2>3. OfferTypes'
    BY <2>1, <2>2
  <2>4. ASSUME NEW t \in Senders
        PROVE  ReadsUnderCursor(t)' /\ (snd[t].pc = "checking" => phase[t] = "ready")'
    BY <2>1
  <2> QED BY <2>3, <2>4
<1>4. CASE ReadEnds(s)
  <2>1. reading[s].file = 0
    BY <1>4, OfferAssumption DEF ReadEnds
  <2> QED BY <1>4, <2>1, OfferAssumption DEF ReadEnds, Phases
<1>5. CASE ReadSource(s)
  <2> DEFINE i == reading[s].file
             c == src[s][i].content
             g == Append(reading[s].got, c[Len(reading[s].got) + 1])
  <2>1. i \in Files /\ reading[s].got \in Seq(Nat)
    BY <1>5, OfferAssumption DEF ReadSource, Files, Chunks
  <2>2. c \in Seq(Nat)
    BY <2>1, OfferAssumption
  <2>3. g \in Chunks
    <3>1. Len(reading[s].got) < Len(c)
      BY <1>5 DEF ReadSource
    <3>2. Len(reading[s].got) + 1 \in 1 .. Len(c)
      BY <2>1, <2>2, <3>1
    <3>3. c[Len(reading[s].got) + 1] \in Nat
      BY <2>2, <3>2, ChunksOfNumbers
    <3> QED BY <2>1, <3>3 DEF Chunks
  <2>4. reading' = [reading EXCEPT ![s].got = g]
    BY <1>5 DEF ReadSource
  <2> HIDE DEF g
  <2> DEFINE r == [reading[s] EXCEPT !.got = g]
  <2>5. r \in [file : 0 .. NumFiles, size : Nat, stamp : Int, got : Chunks]
    BY <2>3
  <2>6. r.file = i
    OBVIOUS
  <2>7. reading' = [reading EXCEPT ![s] = r]
    BY <2>4
  <2> HIDE DEF r
  <2>8. UNCHANGED <<src, phase, cursor, digests>>
    BY <1>5 DEF ReadSource
  <2>9. reading' \in [Senders -> [file : 0 .. NumFiles, size : Nat, stamp : Int,
                                 got : Chunks]]
    BY <2>5, <2>7
  <2>10. \A t \in Senders : reading'[t].file = reading[t].file
    BY <2>6, <2>7
  <2>11. OfferTypes'
    BY <2>8, <2>9
  <2>12. ASSUME NEW t \in Senders
         PROVE  ReadsUnderCursor(t)' /\ (snd[t].pc = "checking" => phase[t] = "ready")'
    BY <2>8, <2>10
  <2> QED BY <2>11, <2>12
<1>6. CASE EndSource(s)
  <2> DEFINE i == reading[s].file
             e == [size |-> reading[s].size, digest |-> reading[s].got,
                   stamp |-> reading[s].stamp]
  <2>1. i \in Files /\ cursor[s] = i
    BY <1>6, OfferAssumption DEF EndSource, Files
  <2>2. e \in [size : Nat, digest : Chunks, stamp : Int]
    OBVIOUS
  <2>3. digests' = [digests EXCEPT ![s][i] = e]
    BY <1>6 DEF EndSource
  <2> HIDE DEF e
  <2>4. digests' \in [Senders -> [Files -> [size : Nat, digest : Chunks, stamp : Int]]]
    BY <2>1, <2>2, <2>3
  <2>5. cursor' \in [Senders -> 0 .. NumFiles + 1]
    <3>1. cursor' = [cursor EXCEPT ![s] = cursor[s] + 1]
      BY <1>6 DEF EndSource
    <3>2. cursor[s] + 1 \in 0 .. NumFiles + 1
      BY <2>1, CursorGoesOn
    <3> QED BY <3>1, <3>2
  <2>6. NoRead \in [file : 0 .. NumFiles, size : Nat, stamp : Int, got : Chunks]
        /\ NoRead.file = 0
    BY OfferAssumption DEF NoRead, Chunks
  <2>7. reading' = [reading EXCEPT ![s] = NoRead]
    BY <1>6 DEF EndSource
  <2>8. UNCHANGED <<src, phase>> /\ cursor' = [cursor EXCEPT ![s] = cursor[s] + 1]
    BY <1>6 DEF EndSource
  <2>9. OfferTypes'
    BY <2>4, <2>5, <2>6, <2>7, <2>8
  <2>10. ASSUME NEW t \in Senders
         PROVE  ReadsUnderCursor(t)' /\ (snd[t].pc = "checking" => phase[t] = "ready")'
    BY <2>6, <2>7, <2>8
  <2> QED BY <2>9, <2>10
<1>7. CASE snd[s].pc = "checking" /\ KeepDigest(s)
  <2>1. cursor[s] + 1 \in 0 .. NumFiles + 1
    <3>1. cursor[s] \in 1 .. NumFiles
      BY <1>7 DEF KeepDigest, Looking, Files
    <3> QED BY <3>1, OfferAssumption
  <2>2. cursor' = [cursor EXCEPT ![s] = cursor[s] + 1]
    BY <1>7 DEF KeepDigest
  <2>3. reading[s].file = 0 /\ UNCHANGED <<src, phase, reading, digests>>
    BY <1>7 DEF KeepDigest, Looking
  <2> QED BY <2>1, <2>2, <2>3
<1>8. CASE snd[s].pc = "checking" /\ DigestAgain(s)
  BY <1>1, <1>8 DEF DigestAgain, Looking
<1> QED BY <1>2, <1>3, <1>4, <1>5, <1>6, <1>7, <1>8 DEF Prepare, Digest, Recheck

\* The owner's edits change neither what was read nor the cursor.
LEMMA OwnerKeepsOffer ==
    ASSUME OfferInv, NEW s \in Senders, NEW i \in Files, UNCHANGED snd,
           Edit(s, i) \/ Delete(s, i)
    PROVE  OfferInv'
<1> DEFINE F == [content : Contents, stamp : Nat, exists : BOOLEAN]
<1>1. src \in [Senders -> [Files -> F]] /\ src[s][i] \in F
  BY DEF OfferInv, OfferTypes
<1>2. ASSUME NEW f \in F, src' = [src EXCEPT ![s][i] = f]
      PROVE  src' \in [Senders -> [Files -> F]]
  BY <1>1, <1>2
<1>3. CASE Edit(s, i)
  <2>1. PICK c \in Contents :
          src' = [src EXCEPT ![s][i].content = c, ![s][i].stamp = @ + 1]
    BY <1>3 DEF Edit
  <2> DEFINE x == src[s][i].stamp + 1
             f == [src[s][i] EXCEPT !.content = c, !.stamp = x]
  <2>2. x \in Nat
    BY <1>1
  <2>3. src' = [src EXCEPT ![s][i] = f]
    BY <1>1, <2>1
  <2> HIDE DEF x
  <2>4. f \in F
    BY <1>1, <2>2
  <2>5. src' \in [Senders -> [Files -> F]]
    BY <1>2, <2>3, <2>4
  <2>6. UNCHANGED <<phase, cursor, reading, digests>>
    BY <1>3 DEF Edit
  <2> QED BY <2>5, <2>6 DEF OfferInv, OfferTypes, ReadsUnderCursor
<1>4. CASE Delete(s, i)
  <2> DEFINE f == [src[s][i] EXCEPT !.exists = FALSE]
  <2>1. f \in F
    BY <1>1
  <2>2. src' = [src EXCEPT ![s][i] = f]
    BY <1>1, <1>4 DEF Delete
  <2>3. src' \in [Senders -> [Files -> F]]
    BY <1>2, <2>1, <2>2
  <2>4. UNCHANGED <<phase, cursor, reading, digests>>
    BY <1>4 DEF Delete
  <2> QED BY <2>3, <2>4 DEF OfferInv, OfferTypes, ReadsUnderCursor
<1> QED BY <1>3, <1>4

-----------------------------------------------------------------------------
(* The folder.                                                             *)

\* Names d and contents x that go together.
FolderFits(d, x) ==
    /\ IsFiniteSet(DOMAIN x) /\ DOMAIN x \subseteq Nat \ {0}
    /\ x \in [DOMAIN x -> Chunks]
    /\ d \in [DOMAIN d -> DOMAIN x]

\* A folder with names d and contents x has its types in the next state.
LEMMA FolderHolds ==
    ASSUME NEW d, NEW x, NEW r, FolderFits(d, x), Folder(d, x, r),
           \A s \in Senders : r[s].fd \in DOMAIN x \cup {0},
           marks' \subseteq Chunks, stale' \in BOOLEAN
    PROVE  FolderTypes'
<1> DEFINE X == ({d[n] : n \in DOMAIN d} \cup {r[s].fd : s \in Senders}) \ {0}
<1>1. dir' = d /\ rcv' = r /\ data' = [n \in X |-> x[n]]
  BY DEF Folder
<1>2. X \subseteq DOMAIN x
  BY DEF FolderFits
<1>3. IsFiniteSet(X)
  BY <1>2, FS_Subset DEF FolderFits
<1>4. d \in [DOMAIN d -> X]
  BY DEF FolderFits
<1>5. \A s \in Senders : r[s].fd \in X \cup {0}
  OBVIOUS
<1> HIDE DEF X
<1>6. DOMAIN data' = X
  BY <1>1
<1>7. data' \in [X -> Chunks]
  BY <1>1, <1>2 DEF FolderFits
<1> QED BY <1>1, <1>2, <1>3, <1>4, <1>5, <1>6, <1>7 DEF FolderTypes, FolderFits

\* The names and contents of a folder go together.
LEMMA FolderStays == FolderTypes => FolderFits(dir, data)
BY DEF FolderTypes, FolderFits

\* A file that is created gets an inode nobody uses.
LEMMA NewInodeIsNew ==
    ASSUME FolderTypes
    PROVE  NewInode \in Nat \ {0} /\ NewInode \notin DOMAIN data
<1> DEFINE c == Cardinality(DOMAIN data)
           S == 1 .. c + 1
<1>1. c \in Nat
  BY FS_CardinalityType DEF FolderTypes
<1>2. IsFiniteSet(S) /\ Cardinality(S) = c + 1
  BY <1>1, FS_Interval
<1>3. ~(S \subseteq DOMAIN data)
  BY <1>1, <1>2, FS_Subset DEF FolderTypes
<1>4. NewInode \in S /\ NewInode \notin DOMAIN data
  BY <1>3 DEF NewInode
<1> QED BY <1>1, <1>4

\* A name is removed from the folder.
LEMMA UnbindFits ==
    ASSUME FolderTypes, NEW name
    PROVE  FolderFits(Unbind(dir, name), data)
BY DEF FolderTypes, FolderFits, Unbind

\* A name is given to an inode that has a content.
LEMMA BindFits ==
    ASSUME NEW d, NEW x, FolderFits(d, x), NEW name, NEW inode \in DOMAIN x
    PROVE  FolderFits(Bind(d, name, inode), x)
BY DEF FolderFits, Bind

\* A name is removed from names that are not the folder's yet.
LEMMA UnbindBindFits ==
    ASSUME NEW d, NEW x, FolderFits(d, x), NEW name
    PROVE  FolderFits(Unbind(d, name), x)
BY DEF FolderFits, Unbind

\* A folder in which one inode, perhaps a new one, has another content.
LEMMA ContentFits ==
    ASSUME FolderTypes, NEW inode \in Nat \ {0}, NEW c \in Chunks
    PROVE  FolderFits(dir, [n \in DOMAIN data \cup {inode} |->
                              IF n = inode THEN c ELSE data[n]])
<1>1. IsFiniteSet(DOMAIN data \cup {inode})
  BY FS_AddElement DEF FolderTypes
<1> QED BY <1>1 DEF FolderTypes, FolderFits

\* A name that is taken stands for a content.
LEMMA TakenHasContent ==
    ASSUME FolderTypes, NEW name, IsTaken(name)
    PROVE  /\ name \in DOMAIN dir /\ Inode(name) = dir[name]
           /\ dir[name] \in DOMAIN data /\ dir[name] \in Nat \ {0}
           /\ data[dir[name]] \in Chunks
BY DEF FolderTypes, IsTaken, Inode

\* Truncate and a write at an offset leave a content of chunks, and
\* Truncate one of the length it is asked for.
LEMMA ContentsAreChunks ==
    ASSUME NEW c \in Chunks, NEW n \in Nat
    PROVE  /\ Truncated(c, n) \in Chunks /\ Len(Truncated(c, n)) = n
           /\ \A x \in Nat : Written(c, n, x) \in Chunks
<1>1. c \in Seq(Nat) /\ Len(c) \in Nat /\ \A k \in 1 .. Len(c) : c[k] \in Nat
  BY DEF Chunks
<1>2. Truncated(c, n) \in [1 .. n -> Nat]
  BY <1>1 DEF Truncated
<1>3. Truncated(c, n) \in Chunks /\ Len(Truncated(c, n)) = n
  BY <1>2 DEF Chunks
<1>4. ASSUME NEW x \in Nat PROVE Written(c, n, x) \in Chunks
  <2> DEFINE l == IF n < Len(c) THEN Len(c) ELSE n + 1
  <2>1. l \in Nat
    BY <1>1
  <2>2. Written(c, n, x) = [k \in 1 .. l |->
          IF k = n + 1 THEN x ELSE IF k <= Len(c) THEN c[k] ELSE 0]
    BY DEF Written
  <2> HIDE DEF l
  <2>3. Written(c, n, x) \in [1 .. l -> Nat]
    BY <1>1, <2>1, <2>2
  <2> QED BY <2>1, <2>3 DEF Chunks
<1> QED BY <1>3, <1>4

-----------------------------------------------------------------------------
(* One stream moves, the others stay.                                      *)

\* Whatever becomes of one stream, all streams are as they should be.
LEMMA Others ==
    ASSUME StreamVars, StreamsInv, NEW s \in Senders,
           NEW m, NEW p, NEW q, NEW w, NEW b, StreamInv(m, p, q, w, b),
           manifest' = [manifest EXCEPT ![s] = m], snd' = [snd EXCEPT ![s] = p],
           rcv' = [rcv EXCEPT ![s] = q], wire' = [wire EXCEPT ![s] = w],
           back' = [back EXCEPT ![s] = b], up' \in [Senders -> BOOLEAN]
    PROVE  StreamVars' /\ StreamsInv'
<1>1. /\ m \in Seq(Entry) /\ p \in Senderly /\ q \in Receiverly
      /\ w \in Seq(Piece) /\ b \in Seq(Answer)
  BY DEF StreamInv, StreamTypes
<1>2. StreamVars'
  BY <1>1 DEF StreamVars
<1>3. ASSUME NEW t \in Senders PROVE Stream(t)'
  <2>1. CASE t = s
    BY <2>1 DEF Stream, StreamVars
  <2>2. CASE t # s
    BY <2>2 DEF Stream, StreamVars, StreamsInv
  <2> QED BY <2>1, <2>2
<1> QED BY <1>2, <1>3 DEF StreamsInv

\* What a stream that does not move has it keeps.
LEMMA Stays ==
    ASSUME StreamVars, NEW s \in Senders
    PROVE  /\ manifest = [manifest EXCEPT ![s] = manifest[s]]
           /\ snd = [snd EXCEPT ![s] = snd[s]]
           /\ rcv = [rcv EXCEPT ![s] = rcv[s]]
           /\ wire = [wire EXCEPT ![s] = wire[s]]
           /\ back = [back EXCEPT ![s] = back[s]]
BY DEF StreamVars

\* A sender's step keeps the invariant if its own stream does.
LEMMA SenderMoves ==
    ASSUME TransferInv, NEW s \in Senders,
           NEW m, NEW p, NEW w, NEW b, StreamInv(m, p, rcv[s], w, b),
           manifest' = [manifest EXCEPT ![s] = m], snd' = [snd EXCEPT ![s] = p],
           wire' = [wire EXCEPT ![s] = w], back' = [back EXCEPT ![s] = b],
           up' \in [Senders -> BOOLEAN], UNCHANGED <<rcv, folder>>, OfferInv'
    PROVE  TransferInv'
<1>1. StreamVars /\ StreamsInv /\ FolderTypes
  BY DEF TransferInv
<1>2. rcv' = [rcv EXCEPT ![s] = rcv[s]]
  BY <1>1, Stays
<1>3. StreamVars' /\ StreamsInv'
  BY <1>1, <1>2, Others
<1>4. FolderTypes'
  BY <1>1 DEF FolderTypes, folder
<1> QED BY <1>3, <1>4 DEF TransferInv

\* A receiver's step keeps the invariant if its own stream and the folder do.
LEMMA ReceiverMoves ==
    ASSUME TransferInv, NEW s \in Senders,
           NEW q, NEW w, NEW b, StreamInv(manifest[s], snd[s], q, w, b),
           wire' = [wire EXCEPT ![s] = w], back' = [back EXCEPT ![s] = b],
           up' \in [Senders -> BOOLEAN],
           NEW d, NEW x, Receives(s, q, d, x), FolderFits(d, x),
           DOMAIN data \subseteq DOMAIN x, q.fd \in DOMAIN x \cup {0},
           marks' \subseteq Chunks, stale' \in BOOLEAN
    PROVE  TransferInv'
<1>1. StreamVars /\ StreamsInv /\ FolderTypes /\ OfferInv
  BY DEF TransferInv
<1>2. /\ UNCHANGED <<offerVars, snd, manifest>> /\ rcv' = [rcv EXCEPT ![s] = q]
      /\ Folder(d, x, [rcv EXCEPT ![s] = q])
  BY DEF Receives, Folder
<1>3. /\ manifest' = [manifest EXCEPT ![s] = manifest[s]]
      /\ snd' = [snd EXCEPT ![s] = snd[s]]
  BY <1>1, <1>2, Stays
<1> HIDE DEF Receives
<1>7. StreamVars' /\ StreamsInv'
  BY <1>1, <1>2, <1>3, Others
<1>4. \A t \in Senders : [rcv EXCEPT ![s] = q][t].fd \in DOMAIN x \cup {0}
  BY <1>1 DEF StreamVars, FolderTypes
<1>5. FolderTypes'
  BY <1>2, <1>4, FolderHolds
<1>6. OfferInv'
  BY <1>1, <1>2, OfferRests
<1> QED BY <1>5, <1>6, <1>7 DEF TransferInv

-----------------------------------------------------------------------------
(* The invariant holds.                                                    *)

\* The invariant holds at first.
LEMMA InitHolds == Init => TransferInv
<1> SUFFICES ASSUME Init PROVE TransferInv
  OBVIOUS
<1> USE DEF Init
<1>1. OfferInv
  <2>1. src \in [Senders -> [Files -> [content : Contents, stamp : Nat, exists : BOOLEAN]]]
    <3> DEFINE G == [Files -> [content : Contents, stamp : Nat, exists : BOOLEAN]]
               Z == {[i \in Files |-> [content |-> f[i], stamp |-> 0, exists |-> TRUE]] :
                       f \in Selections}
    <3>1. ASSUME NEW f \in Selections
          PROVE  [i \in Files |-> [content |-> f[i], stamp |-> 0, exists |-> TRUE]] \in G
      <4>1. f \in [Files -> Contents]
        BY OfferAssumption
      <4>2. \A i \in Files : [content |-> f[i], stamp |-> 0, exists |-> TRUE]
                                \in [content : Contents, stamp : Nat, exists : BOOLEAN]
        BY <4>1
      <4> QED BY <4>2
    <3> HIDE DEF G
    <3>4. Z \subseteq G
      BY <3>1, Zenon
    <3>2. src \in [Senders -> Z]
      BY DEF OfferInit
    <3> HIDE DEF Z
    <3>3. src \in [Senders -> G]
      BY <3>2, <3>4
    <3> QED BY <3>3 DEF G
  <2>2. /\ NoRead \in [file : 0 .. NumFiles, size : Nat, stamp : Int, got : Chunks]
        /\ NoRead.file = 0
    BY OfferAssumption DEF NoRead, Chunks
  <2>3. Undigested \in [size : Nat, digest : Chunks, stamp : Int]
    BY DEF Undigested, Chunks
  <2>4. \A s \in Senders : snd[s].pc = "idle"
    BY DEF Sender
  <2>5. 1 \in 0 .. NumFiles + 1
    BY OfferAssumption
  <2>6. OfferTypes
    BY <2>1, <2>2, <2>3, <2>5 DEF OfferInit, OfferTypes, Phases
  <2> QED BY <2>2, <2>4, <2>6 DEF OfferInv, OfferInit, ReadsUnderCursor
<1>2. StreamsInv
  BY AttemptStarts DEF StreamsInv, Stream
<1>3. StreamVars
  <2>1. /\ Sender("idle") \in Senderly /\ Receiver("failed") \in Receiverly
    BY AttemptStarts DEF StreamInv, StreamTypes
  <2> QED BY <2>1 DEF StreamVars
<1>4. FolderTypes
  <2>1. DOMAIN data = {} /\ DOMAIN dir = {}
    OBVIOUS
  <2>3. data \in [{} -> Chunks] /\ dir \in [{} -> {}]
    BY <2>1
  <2>2. \A s \in Senders : rcv[s].fd = 0
    BY DEF Receiver
  <2> QED BY <2>1, <2>2, <2>3, FS_EmptySet DEF FolderTypes
<1> QED BY <1>1, <1>2, <1>3, <1>4 DEF TransferInv

\* Send returns, for whatever reason.
LEMMA ReturningHolds ==
    ASSUME TransferInv, NEW s \in Senders, NEW pc \in {"idle", "gone", "delivered"},
           SendReturns(s, pc), snd[s].pc # "idle",
           snd[s].pc = "offered" => pc = "idle",
           pc = "delivered" => snd[s].pc = "flushed",
           OfferInv'
    PROVE  TransferInv'
<1>1. StreamVars /\ Stream(s)
  BY DEF TransferInv, StreamsInv
<1>2. StreamInv(manifest[s], Sender(pc), rcv[s], wire[s], back[s])
  BY <1>1, SenderReturns DEF Stream
<1>3. UNCHANGED <<wire, back, manifest, rcv, folder>> /\ snd' = [snd EXCEPT ![s] = Sender(pc)]
  BY DEF SendReturns
<1>4. up' \in [Senders -> BOOLEAN]
  BY <1>1 DEF SendReturns, StreamVars
<1>5. /\ manifest' = [manifest EXCEPT ![s] = manifest[s]]
      /\ wire' = [wire EXCEPT ![s] = wire[s]]
      /\ back' = [back EXCEPT ![s] = back[s]]
  BY <1>1, <1>3, Stays
<1>6. UNCHANGED <<rcv, folder>>
  BY <1>3
<1>7. snd' = [snd EXCEPT ![s] = Sender(pc)]
  BY <1>3
<1> QED BY <1>2, <1>4, <1>5, <1>6, <1>7, SenderMoves

\* The files are as they were, and so is whether the sender looks at them.
LEMMA OfferKept ==
    ASSUME TransferInv, NEW s \in Senders, UNCHANGED offerVars, snd[s].pc # "checking",
           NEW p, p.pc # "checking", snd' = [snd EXCEPT ![s] = p]
    PROVE  OfferInv'
<1>1. OfferInv /\ snd \in [Senders -> Senderly]
  BY DEF TransferInv, StreamVars
<1>2. \A t \in Senders : snd'[t].pc = "checking" <=> snd[t].pc = "checking"
  BY <1>1
<1> QED BY <1>1, <1>2, OfferRests

\* Every step of Send keeps the invariant.
LEMMA SendStepHolds ==
    ASSUME TransferInv, NEW s \in Senders, SendStep(s)
    PROVE  TransferInv'
<1>1. /\ StreamVars /\ OfferInv /\ OfferTypes
      /\ StreamInv(manifest[s], snd[s], rcv[s], wire[s], back[s])
      /\ snd[s] \in Senderly
  BY DEF TransferInv, StreamsInv, Stream, OfferInv, StreamVars
<1>2. /\ manifest = [manifest EXCEPT ![s] = manifest[s]]
      /\ wire = [wire EXCEPT ![s] = wire[s]]
      /\ back = [back EXCEPT ![s] = back[s]]
  BY <1>1, Stays
<1>3. up \in [Senders -> BOOLEAN]
  BY <1>1 DEF StreamVars
<1>4. \A pc \in SendLabels : Sender(pc).pc = pc
  BY DEF Sender
<1>5. CASE WaitEnds(s)
  <2>1. StreamInv(manifest[s], Sender("checking"), rcv[s], wire[s], back[s])
    BY <1>1, <1>5, SenderChecks DEF WaitEnds
  <2>2. OfferInv'
    <3>1. 1 \in 0 .. NumFiles + 1
      BY OfferAssumption
    <3>2. cursor' = [cursor EXCEPT ![s] = 1] /\ UNCHANGED <<src, phase, reading, digests>>
          /\ phase[s] = "ready" /\ snd[s].pc = "waiting"
          /\ snd' = [snd EXCEPT ![s] = Sender("checking")]
      BY <1>5 DEF WaitEnds, SendGoesOn
    <3>3. OfferTypes'
      BY <1>1, <3>1, <3>2 DEF OfferTypes
    <3>4. ASSUME NEW t \in Senders
          PROVE  ReadsUnderCursor(t)' /\ (snd[t].pc = "checking" => phase[t] = "ready")'
      BY <1>1, <1>4, <3>2 DEF OfferInv, OfferTypes, ReadsUnderCursor, StreamVars, SendLabels
    <3> QED BY <3>3, <3>4 DEF OfferInv
  <2>3. snd' = [snd EXCEPT ![s] = Sender("checking")] /\ UNCHANGED <<rcv, folder>>
    BY <1>5 DEF WaitEnds, SendGoesOn
  <2>4. /\ manifest' = [manifest EXCEPT ![s] = manifest[s]]
        /\ wire' = [wire EXCEPT ![s] = wire[s]]
        /\ back' = [back EXCEPT ![s] = back[s]]
        /\ up' \in [Senders -> BOOLEAN]
    BY <1>2, <1>3, <1>5 DEF WaitEnds, streams
  <2> QED BY <2>1, <2>2, <2>3, <2>4, SenderMoves
<1>6. CASE OfferFailed(s)
  <2>1. OfferInv'
    BY <1>4, <1>6, OfferKept DEF OfferFailed, SendReturns, SendLabels
  <2> QED BY <1>6, <2>1, ReturningHolds DEF OfferFailed
<1>7. ASSUME NEW p \in Senderly, p.pc # "checking", snd[s].pc = "checking",
             reading[s].file = 0, snd' = [snd EXCEPT ![s] = p],
             cursor' = [cursor EXCEPT ![s] = 0], UNCHANGED <<src, phase, reading, digests>>
      PROVE  OfferInv'
  <2>1. 0 \in 0 .. NumFiles + 1
    BY OfferAssumption
  <2>2. OfferTypes'
    BY <1>1, <1>7, <2>1 DEF OfferTypes
  <2>3. ASSUME NEW t \in Senders
        PROVE  ReadsUnderCursor(t)' /\ (snd[t].pc = "checking" => phase[t] = "ready")'
    BY <1>1, <1>7 DEF OfferInv, OfferTypes, ReadsUnderCursor, StreamVars
  <2> QED BY <2>2, <2>3 DEF OfferInv
<1>8. CASE FileIsGone(s)
  <2>1. Sender("gone") \in Senderly
    BY OfferAssumption DEF Sender, Senderly, SendLabels
  <2>2. OfferInv'
    <3>1. /\ snd[s].pc = "checking" /\ snd' = [snd EXCEPT ![s] = Sender("gone")]
          /\ cursor' = [cursor EXCEPT ![s] = 0] /\ UNCHANGED <<src, phase, reading, digests>>
          /\ reading[s].file = 0
      BY <1>8 DEF FileIsGone, SendReturns, SourceIsGone, Looking
    <3>2. Sender("gone").pc # "checking"
      BY DEF Sender
    <3> QED BY <1>7, <2>1, <3>1, <3>2
  <2> QED BY <1>8, <2>2, ReturningHolds DEF FileIsGone
<1>9. CASE SendManifest(s)
  <2> DEFINE m == [i \in Files |-> [size |-> digests[s][i].size,
                                    digest |-> digests[s][i].digest]]
  <2>1. m \in [Files -> Entry]
    BY <1>1 DEF OfferTypes, Entry
  <2>2. manifest' = [manifest EXCEPT ![s] = m]
    BY <1>9 DEF SendManifest
  <2> HIDE DEF m
  <2>3. StreamInv(m, Sender("offered"), rcv[s], <<ManifestLine>>, back[s])
    BY <1>1, <1>9, <2>1, ManifestIsSent DEF SendManifest
  <2>4. reading[s].file = 0
    BY <1>1, <1>9, OfferAssumption DEF SendManifest, OfferInv, ReadsUnderCursor, OfferTypes
  <2>5. Sender("offered") \in Senderly
    BY OfferAssumption DEF Sender, Senderly, SendLabels
  <2>6. OfferInv'
    <3>1. /\ snd[s].pc = "checking" /\ snd' = [snd EXCEPT ![s] = Sender("offered")]
          /\ cursor' = [cursor EXCEPT ![s] = 0] /\ UNCHANGED <<src, phase, reading, digests>>
      BY <1>9 DEF SendManifest, SendGoesOn
    <3>2. Sender("offered").pc # "checking"
      BY DEF Sender
    <3> QED BY <1>7, <2>4, <2>5, <3>1, <3>2
  <2>7. snd' = [snd EXCEPT ![s] = Sender("offered")] /\ UNCHANGED <<rcv, folder>>
    BY <1>9 DEF SendManifest, SendGoesOn
  <2>8. /\ wire' = [wire EXCEPT ![s] = <<ManifestLine>>]
        /\ back' = [back EXCEPT ![s] = back[s]]
        /\ up' \in [Senders -> BOOLEAN]
    BY <1>2, <1>3, <1>9 DEF SendManifest
  <2> QED BY <2>2, <2>3, <2>6, <2>7, <2>8, SenderMoves
<1>10. CASE Accepted(s)
  <2> DEFINE o == Head(back[s]).offsets
             p == [pc |-> "sending", file |-> 1, pos |-> o[1], offsets |-> o]
  <2>1. StreamInv(manifest[s], p, rcv[s], wire[s], Tail(back[s]))
    BY <1>1, <1>10, OffsetsAreTaken DEF Accepted
  <2>2. p.pc # "checking"
    OBVIOUS
  <2>3. snd' = [snd EXCEPT ![s] = p] /\ UNCHANGED <<rcv, folder>>
        /\ back' = [back EXCEPT ![s] = Tail(back[s])]
        /\ UNCHANGED <<offerVars, up, wire, manifest>> /\ snd[s].pc = "offered"
    BY <1>1, <1>10 DEF Accepted, SendGoesOn, StreamVars
  <2> HIDE DEF p
  <2>4. OfferInv'
    BY <2>2, <2>3, OfferKept
  <2> QED BY <1>2, <1>3, <2>1, <2>3, <2>4, SenderMoves
<1>11. CASE Refused(s)
  <2>1. OfferInv'
    BY <1>4, <1>11, OfferKept DEF Refused, SendReturns, SendLabels
  <2> QED BY <1>11, <2>1, ReturningHolds DEF Refused
<1>12. CASE SendChunk(s)
  <2> DEFINE p == [snd[s] EXCEPT !.pos = @ + 1]
             i == snd[s].file
             x == src[s][i].content[snd[s].pos + 1]
             w == Append(wire[s], [file |-> snd[s].file, at |-> snd[s].pos, chunk |-> x])
  <2>1. i \in Files /\ snd[s].pos \in Nat /\ snd[s].pc = "sending"
    BY <1>1, <1>12 DEF SendChunk, Unsent, StreamInv, SenderFits, Senderly
  <2>2. src[s][i].content \in Seq(Nat)
    BY <1>1, <2>1, OfferAssumption DEF OfferTypes
  <2>3. x \in Nat
    <3>1. snd[s].pos + 1 \in 1 .. Len(src[s][i].content)
      <4>1. snd[s].pos < Len(src[s][i].content)
        BY <1>12 DEF SendChunk
      <4>2. Len(src[s][i].content) \in Nat
        BY <2>2, ChunksOfNumbers
      <4> QED BY <2>1, <4>1, <4>2
    <3> QED BY <2>2, <3>1, ChunksOfNumbers
  <2>4. /\ snd' = [snd EXCEPT ![s] = p] /\ UNCHANGED <<rcv, folder>>
        /\ wire' = [wire EXCEPT ![s] = w]
        /\ UNCHANGED <<offerVars, up, back, manifest>>
    BY <1>12 DEF SendChunk, SendGoesOn
  <2>5. p.pc # "checking"
    BY <1>1, <2>1 DEF Senderly
  <2> HIDE DEF x
  <2>6. StreamInv(manifest[s], p, rcv[s], w, back[s])
    BY <1>1, <1>12, <2>1, <2>3, ChunkIsSent DEF SendChunk, Unsent
  <2> HIDE DEF p, w
  <2>7. OfferInv'
    BY <2>1, <2>4, <2>5, OfferKept
  <2> QED BY <1>2, <1>3, <2>4, <2>6, <2>7, SenderMoves
<1>13. CASE FileShrank(s)
  <2>1. OfferInv'
    BY <1>4, <1>13, OfferKept DEF FileShrank, SendReturns, SendLabels, Unsent
  <2> QED BY <1>13, <2>1, ReturningHolds DEF FileShrank, Unsent
<1>14. CASE FileCannotOpen(s)
  <2>1. OfferInv'
    BY <1>4, <1>14, OfferKept DEF FileCannotOpen, SendReturns, SendLabels, Unsent
  <2> QED BY <1>14, <2>1, ReturningHolds DEF FileCannotOpen, Unsent
<1>15. CASE NextFile(s)
  <2> DEFINE p == IF snd[s].file = NumFiles THEN Sender("flushed")
                  ELSE [snd[s] EXCEPT !.file = @ + 1,
                                      !.pos = snd[s].offsets[snd[s].file + 1]]
  <2>1. StreamInv(manifest[s], p, rcv[s], wire[s], back[s])
    BY <1>1, <1>15, FileEnds DEF NextFile, Unsent
  <2>2. p.pc # "checking"
    BY <1>1, <1>4, <1>15 DEF NextFile, SendLabels, Senderly
  <2>3. snd' = [snd EXCEPT ![s] = p] /\ UNCHANGED <<rcv, folder>>
        /\ UNCHANGED <<offerVars, up, wire, back, manifest>> /\ snd[s].pc = "sending"
    BY <1>15 DEF NextFile, SendGoesOn, streams
  <2> HIDE DEF p
  <2>4. OfferInv'
    BY <2>2, <2>3, OfferKept
  <2>5. /\ manifest' = [manifest EXCEPT ![s] = manifest[s]]
        /\ wire' = [wire EXCEPT ![s] = wire[s]]
        /\ back' = [back EXCEPT ![s] = back[s]]
        /\ up' \in [Senders -> BOOLEAN]
    BY <1>2, <1>3, <2>3
  <2>6. snd' = [snd EXCEPT ![s] = p] /\ UNCHANGED <<rcv, folder>>
    BY <2>3
  <2> QED BY <2>1, <2>4, <2>5, <2>6, SenderMoves
<1>16. CASE Acknowledged(s)
  <2>1. OfferInv'
    BY <1>4, <1>16, OfferKept DEF Acknowledged, SendReturns, SendLabels
  <2> QED BY <1>16, <2>1, ReturningHolds DEF Acknowledged
<1>17. CASE SendLost(s)
  <2>1. OfferInv'
    BY <1>4, <1>17, OfferKept DEF SendLost, SendReturns, SendLabels
  <2> QED BY <1>17, <2>1, ReturningHolds DEF SendLost
<1> QED BY <1>5, <1>6, <1>8, <1>9, <1>10, <1>11, <1>12, <1>13, <1>14, <1>15, <1>16, <1>17
        DEF SendStep

\* A receiver's step that leaves the contents as they are.
LEMMA NamesMove ==
    ASSUME TransferInv, NEW s \in Senders,
           NEW q, NEW w, NEW b, StreamInv(manifest[s], snd[s], q, w, b),
           wire' = [wire EXCEPT ![s] = w], back' = [back EXCEPT ![s] = b],
           up' \in [Senders -> BOOLEAN],
           NEW d, Receives(s, q, d, data), FolderFits(d, data),
           q.fd \in {0, rcv[s].fd},
           marks' \subseteq Chunks, stale' \in BOOLEAN
    PROVE  TransferInv'
<1>1. q.fd \in DOMAIN data \cup {0} /\ DOMAIN data \subseteq DOMAIN data
  BY DEF TransferInv, FolderTypes
<1> HIDE DEF Receives
<1> QED BY <1>1, ReceiverMoves

\* Such a step without a word to the sender, or one read from it.
LEMMA NamesMoveSilently ==
    ASSUME TransferInv, NEW s \in Senders,
           NEW q, StreamInv(manifest[s], snd[s], q, wire[s], back[s]),
           UNCHANGED <<up, wire, back>>,
           NEW d, Receives(s, q, d, data), FolderFits(d, data),
           q.fd \in {0, rcv[s].fd},
           marks' \subseteq Chunks, stale' \in BOOLEAN
    PROVE  TransferInv'
<1>1. /\ wire' = [wire EXCEPT ![s] = wire[s]] /\ back' = [back EXCEPT ![s] = back[s]]
      /\ up' \in [Senders -> BOOLEAN]
  BY Stays DEF TransferInv, StreamVars
<1> QED BY <1>1, NamesMove

\* What a step of a receiver starts from.
LEMMA ReceiverHas ==
    ASSUME TransferInv, NEW s \in Senders
    PROVE  /\ StreamInv(manifest[s], snd[s], rcv[s], wire[s], back[s])
           /\ rcv[s] \in Receiverly /\ FolderTypes /\ FolderFits(dir, data)
           /\ marks \subseteq Chunks /\ stale \in BOOLEAN
           /\ up \in [Senders -> BOOLEAN]
           /\ rcv[s].pc = "receive" <=> rcv[s].fd # 0
           /\ rcv[s].pc \in {"sweep", "resume", "forget"} \cup Saving => 
                 manifest[s] \in [Files -> Entry]
           /\ rcv[s].pc \in Saving \ {"open"} => rcv[s].file \in Files
<1>1. StreamInv(manifest[s], snd[s], rcv[s], wire[s], back[s])
  BY DEF TransferInv, StreamsInv, Stream
<1>2. rcv[s] \in Receiverly /\ up \in [Senders -> BOOLEAN] /\ FolderTypes
  BY DEF TransferInv, StreamVars
<1>3. manifest[s] \in Seq(Entry) /\ HasManifest(manifest[s], snd[s], rcv[s], wire[s])
      /\ ReceiverFits(manifest[s], rcv[s])
      /\ (rcv[s].pc = "receive" <=> rcv[s].fd # 0)
  BY <1>1 DEF StreamInv, StreamTypes
<1>4. rcv[s].pc \in {"sweep", "resume", "forget"} \cup Saving => 
                 manifest[s] \in [Files -> Entry]
  BY <1>3 DEF HasManifest
<1>5. rcv[s].pc \in Saving \ {"open"} => rcv[s].file \in Files
  BY <1>3 DEF ReceiverFits
<1>6. marks \subseteq Chunks /\ stale \in BOOLEAN
  BY <1>2 DEF FolderTypes
<1> QED BY <1>1, <1>2, <1>3, <1>4, <1>5, <1>6, FolderStays

\* Receive returns an error, or the process dies.
LEMMA FailingHolds ==
    ASSUME TransferInv, NEW s \in Senders, rcv[s].pc # "failed",
           NEW said \in {<<>>, <<Refusal>>}, rcv[s].pc = "offer" => said = <<>>,
           NEW d, Receives(s, Receiver("failed"), d, data), FolderFits(d, data),
           up' = [up EXCEPT ![s] = FALSE],
           back' = [back EXCEPT ![s] = back[s] \o said],
           UNCHANGED <<wire, marks, stale>>
    PROVE  TransferInv'
<1>1. StreamInv(manifest[s], snd[s], Receiver("failed"), wire[s], back[s] \o said)
  BY ReceiverHas, ReceiverStops
<1>2. wire' = [wire EXCEPT ![s] = wire[s]] /\ up' \in [Senders -> BOOLEAN]
  BY Stays, ReceiverHas DEF TransferInv, StreamVars
<1>3. marks' \subseteq Chunks /\ stale' \in BOOLEAN
  BY ReceiverHas
<1>4. Receiver("failed").fd \in {0, rcv[s].fd}
  BY DEF Receiver
<1> HIDE DEF Receives
<1> QED BY <1>1, <1>2, <1>3, <1>4, NamesMove

\* A step within a file, with nothing open afterwards.
LEMMA FileGoesOn ==
    ASSUME TransferInv, NEW s \in Senders,
           rcv[s].pc \in Saving, rcv[s].file \in Files,
           NEW r \in Receiverly, r.pc \in Saving \ {"open", "receive"},
           r.file = rcv[s].file, r.parts = rcv[s].parts, r.fd = 0,
           Expected(manifest[s], rcv[s]) = manifest[s][rcv[s].file].size,
           NEW d, Receives(s, r, d, data), FolderFits(d, data),
           UNCHANGED <<up, wire, back, marks, stale>>
    PROVE  TransferInv'
<1>1. Expected(manifest[s], r) = Expected(manifest[s], rcv[s])
  BY DEF Expected
<1>2. r.pc # "receive" /\ r.pc \in Saving
  OBVIOUS
<1>3. StreamInv(manifest[s], snd[s], r, wire[s], back[s])
  BY <1>1, <1>2, ReceiverHas, SavingGoesOn
<1>4. marks' \subseteq Chunks /\ stale' \in BOOLEAN
  BY ReceiverHas
<1> HIDE DEF Receives
<1> QED BY <1>3, <1>4, NamesMoveSilently

\* The receiver goes on to its next file.
LEMMA NextPartHolds ==
    ASSUME TransferInv, NEW s \in Senders,
           rcv[s].pc \in Saving \ {"receive"}, rcv[s].file \in Files,
           Expected(manifest[s], rcv[s]) = manifest[s][rcv[s].file].size,
           NEW r \in Receiverly, r.pc = "open",
           r.file = rcv[s].file + 1, r.parts = rcv[s].parts, r.fd = rcv[s].fd,
           Receives(s, r, dir, data), UNCHANGED <<up, wire, back, stale>>,
           marks' \subseteq Chunks
    PROVE  TransferInv'
<1>1. r.fd = 0 /\ rcv[s].pc \in Saving
  BY ReceiverHas
<1>2. StreamInv(manifest[s], snd[s], r, wire[s], back[s])
  BY <1>1, ReceiverHas, FileIsSaved
<1>3. stale' \in BOOLEAN /\ FolderFits(dir, data)
  BY ReceiverHas
<1> HIDE DEF Receives
<1> QED BY <1>1, <1>2, <1>3, NamesMoveSilently

\* The offer, up to the answer to it.
LEMMA OfferingHolds ==
    ASSUME TransferInv, NEW s \in Senders,
           \/ TakeOffer(s) \/ ReceiveLost(s) \/ Sweep(s) \/ Decline(s)
           \/ SendAccept(s)
    PROVE  TransferInv'
<1>1. /\ StreamInv(manifest[s], snd[s], rcv[s], wire[s], back[s])
      /\ rcv[s] \in Receiverly /\ FolderFits(dir, data) /\ FolderTypes
      /\ marks \subseteq Chunks /\ stale \in BOOLEAN
      /\ up \in [Senders -> BOOLEAN]
      /\ rcv[s].pc = "receive" <=> rcv[s].fd # 0
  BY ReceiverHas
<1>2. wire = [wire EXCEPT ![s] = wire[s]] /\ back = [back EXCEPT ![s] = back[s]]
  BY Stays DEF TransferInv
<1>3. wire \in [Senders -> Seq(Piece)] /\ back \in [Senders -> Seq(Answer)]
  BY DEF TransferInv, StreamVars
<1>4. CASE TakeOffer(s)
  <2> DEFINE w == Tail(wire[s])
             r == Receiver("sweep")
  <2>1. StreamInv(manifest[s], snd[s], r, w, back[s])
    BY <1>1, <1>4, OfferIsTaken DEF TakeOffer
  <2>2. wire' = [wire EXCEPT ![s] = w] /\ UNCHANGED <<up, back, marks, stale>>
        /\ Receives(s, r, dir, data)
    BY <1>3, <1>4 DEF TakeOffer
  <2>3. back' = [back EXCEPT ![s] = back[s]] /\ up' \in [Senders -> BOOLEAN]
        /\ marks' \subseteq Chunks /\ stale' \in BOOLEAN
    BY <1>1, <1>2, <2>2
  <2>4. r.fd \in {0, rcv[s].fd}
    BY DEF Receiver
  <2> HIDE DEF w, r, Receives
  <2> QED BY <1>1, <2>1, <2>2, <2>3, <2>4, NamesMove
<1>5. CASE ReceiveLost(s)
  <2>1. rcv[s].pc # "failed" /\ Receives(s, Receiver("failed"), dir, data)
    BY <1>5 DEF ReceiveLost, ReceiveFails
  <2>2. up' = [up EXCEPT ![s] = FALSE] /\ back' = [back EXCEPT ![s] = back[s] \o <<>>]
        /\ UNCHANGED <<wire, marks, stale>>
    BY <1>3, <1>5 DEF ReceiveLost, ReceiveFails
  <2> HIDE DEF Receives
  <2> QED BY <1>1, <2>1, <2>2, FailingHolds
<1>6. CASE Decline(s)
  <2>1. rcv[s].pc = "sweep" /\ Receives(s, Receiver("failed"), dir, data)
    BY <1>6 DEF Decline
  <2>2. Append(back[s], Refusal) = back[s] \o <<Refusal>>
    <3>1. Refusal \in Answer /\ back[s] \in Seq(Answer)
      BY <1>3 DEF Refusal, Answer
    <3> HIDE DEF Refusal
    <3> QED BY <3>1
  <2>3. up' = [up EXCEPT ![s] = FALSE] /\ back' = [back EXCEPT ![s] = Append(back[s], Refusal)]
        /\ UNCHANGED <<wire, marks, stale>>
    BY <1>3, <1>6 DEF Decline
  <2>4. back' = [back EXCEPT ![s] = back[s] \o <<Refusal>>]
    BY <2>2, <2>3
  <2> HIDE DEF Receives
  <2> QED BY <1>1, <2>1, <2>3, <2>4, FailingHolds
<1>7. CASE Sweep(s)
  <2> DEFINE r == [Receiver("resume") EXCEPT !.file = 1]
             swept == {n \in DOMAIN dir : stale => n \in FileNames}
             d == [n \in swept |-> dir[n]]
  <2>1. r.pc = "resume" /\ r.file = 1 /\ r.parts = <<>> /\ r.fd = 0
    BY DEF Receiver
  <2>2. r \in Receiverly
    <3>1. Receiver("resume") \in Receiverly /\ 1 \in 0 .. NumFiles + 1
      BY FreshReceiver, OfferAssumption DEF ReceiveLabels
    <3> QED BY <3>1 DEF Receiverly
  <2>3. rcv[s].pc = "sweep" /\ Receives(s, r, d, data)
        /\ UNCHANGED <<up, wire, back>> /\ marks' = (IF stale THEN {} ELSE marks)
        /\ stale' = FALSE
    BY <1>7 DEF Sweep
  <2>4. FolderFits(d, data)
    BY <1>1 DEF FolderFits
  <2> HIDE DEF r, d, Receives
  <2>5. StreamInv(manifest[s], snd[s], r, wire[s], back[s])
    BY <1>1, <2>1, <2>2, <2>3, PartsAreSwept
  <2>6. marks' \subseteq Chunks /\ stale' \in BOOLEAN /\ r.fd \in {0, rcv[s].fd}
    BY <1>1, <2>1, <2>3
  <2> QED BY <2>3, <2>4, <2>5, <2>6, NamesMoveSilently
<1>8. CASE SendAccept(s)
  <2> DEFINE r == [rcv[s] EXCEPT !.pc = "open", !.file = 1]
             o == [i \in Files |-> rcv[s].parts[i].offset]
             b == Append(back[s], Accept(o))
  <2>1. r.pc = "open" /\ r.file = 1 /\ r.parts = rcv[s].parts /\ r.fd = rcv[s].fd
    BY <1>1 DEF Receiverly
  <2>2. 1 \in 0 .. NumFiles + 1 /\ "open" \in ReceiveLabels
    BY OfferAssumption DEF ReceiveLabels
  <2>3. r \in Receiverly
    BY <1>1, <2>2 DEF Receiverly
  <2>4. rcv[s].pc = "resume" /\ rcv[s].file = NumFiles + 1 /\ Receives(s, r, dir, data)
        /\ UNCHANGED <<up, wire, marks, stale>> /\ back' = [back EXCEPT ![s] = b]
    BY <1>3, <1>8 DEF SendAccept
  <2> HIDE DEF r, Receives
  <2>5. StreamInv(manifest[s], snd[s], r, wire[s], b)
    BY <1>1, <2>1, <2>3, <2>4, OfferIsAccepted
  <2>6. wire' = [wire EXCEPT ![s] = wire[s]] /\ up' \in [Senders -> BOOLEAN]
        /\ marks' \subseteq Chunks /\ stale' \in BOOLEAN /\ r.fd \in {0, rcv[s].fd}
    BY <1>1, <1>2, <2>1, <2>4
  <2> HIDE DEF b
  <2> QED BY <1>1, <2>4, <2>5, <2>6, NamesMove
<1> QED BY <1>4, <1>5, <1>6, <1>7, <1>8

\* resumeFrom, file by file.
LEMMA ResumingHolds ==
    ASSUME TransferInv, NEW s \in Senders,
           ResumeComplete(s) \/ ResumePartial(s) \/ ResumeAfresh(s)
    PROVE  TransferInv'
<1> DEFINE i == rcv[s].file
           name == PartName(manifest[s], i)
<1>1. /\ StreamInv(manifest[s], snd[s], rcv[s], wire[s], back[s])
      /\ rcv[s] \in Receiverly /\ FolderFits(dir, data) /\ FolderTypes
      /\ marks \subseteq Chunks /\ stale \in BOOLEAN
  BY ReceiverHas
<1>2. rcv[s].pc = "resume" /\ i \in Files
  BY DEF ResumeComplete, ResumePartial, ResumeAfresh, Resuming
<1>3. manifest[s][i] \in Entry /\ manifest[s][i].size \in Nat
  <2>1. manifest[s] \in [Files -> Entry]
    BY <1>2, ReceiverHas
  <2>2. manifest[s][i] \in Entry
    BY <1>2, <2>1
  <2> QED BY <2>2 DEF Entry
<1>4. ASSUME NEW part \in Part, PartFits(part, manifest[s][i].size),
             NEW d, FolderFits(d, data), Resume(s, part, d)
      PROVE  TransferInv'
  <2> DEFINE ps == Append(rcv[s].parts, part)
             r == [rcv[s] EXCEPT !.parts = ps, !.file = i + 1]
  <2>1. ps \in Seq(Part) /\ i + 1 \in 0 .. NumFiles + 1
    BY <1>1, <1>2, OfferAssumption DEF Receiverly, Files
  <2>2. Receives(s, r, d, data) /\ UNCHANGED <<up, wire, back, marks, stale>>
    BY <1>1, <1>4 DEF Resume, Receiverly
  <2> HIDE DEF ps
  <2>3. r.pc = "resume" /\ r.file = i + 1 /\ r.parts = ps /\ r.fd = rcv[s].fd
    BY <1>1, <1>2 DEF Receiverly
  <2>4. r \in Receiverly
    BY <1>1, <2>1 DEF Receiverly
  <2> HIDE DEF r, Receives
  <2>5. StreamInv(manifest[s], snd[s], r, wire[s], back[s])
    BY <1>1, <1>2, <1>4, <2>3, <2>4, PartIsFound DEF ps
  <2>6. marks' \subseteq Chunks /\ stale' \in BOOLEAN
    BY <1>1, <2>2
  <2> QED BY <1>4, <2>2, <2>3, <2>5, <2>6, NamesMoveSilently
<1>5. FolderFits(Unbind(dir, name), data)
  BY <1>1, UnbindFits
<1>6. CASE ResumeComplete(s)
  <2> DEFINE part == [complete |-> TRUE, offset |-> manifest[s][i].size, got |-> <<>>]
  <2>1. part \in Part /\ PartFits(part, manifest[s][i].size)
    BY <1>3 DEF Part, PartFits, Chunks
  <2>2. Resume(s, part, Unbind(dir, name))
    BY <1>6 DEF ResumeComplete
  <2> HIDE DEF part, Resume
  <2> QED BY <1>4, <1>5, <2>1, <2>2
<1>7. CASE ResumePartial(s)
  <2> DEFINE left == data[Inode(name)]
             part == [complete |-> FALSE, offset |-> Len(left), got |-> left]
  <2>1. IsTaken(name) /\ Len(left) <= manifest[s][i].size
    BY <1>7 DEF ResumePartial, Usable
  <2>2. left \in Chunks
    BY <1>1, <2>1, TakenHasContent
  <2>3. Len(left) \in Nat
    BY <2>2 DEF Chunks
  <2>4. Resume(s, part, dir)
    BY <1>7 DEF ResumePartial
  <2> HIDE DEF left
  <2>5. part \in Part /\ PartFits(part, manifest[s][i].size)
    BY <2>1, <2>2, <2>3 DEF Part, PartFits, left
  <2> HIDE DEF part, Resume
  <2> QED BY <1>1, <1>4, <2>4, <2>5
<1>8. CASE ResumeAfresh(s)
  <2> DEFINE part == [complete |-> FALSE, offset |-> 0, got |-> <<>>]
  <2>1. part \in Part /\ PartFits(part, manifest[s][i].size)
    BY <1>3 DEF Part, PartFits, Chunks
  <2>2. Resume(s, part, Unbind(dir, name))
    BY <1>8 DEF ResumeAfresh
  <2> HIDE DEF part, Resume
  <2> QED BY <1>4, <1>5, <2>1, <2>2
<1> QED BY <1>6, <1>7, <1>8

\* receiveFile: opening, receiving, checking.
LEMMA ReceivingHolds ==
    ASSUME TransferInv, NEW s \in Senders,
           \/ SkipComplete(s) \/ OpenPart(s) \/ ReceiveChunk(s) \/ Mismatch(s)
           \/ CloseFile(s)
    PROVE  TransferInv'
<1> DEFINE i == rcv[s].file
           name == PartName(manifest[s], i)
<1>1. /\ StreamInv(manifest[s], snd[s], rcv[s], wire[s], back[s])
      /\ rcv[s] \in Receiverly /\ FolderFits(dir, data) /\ FolderTypes
      /\ marks \subseteq Chunks /\ stale \in BOOLEAN
      /\ up \in [Senders -> BOOLEAN]
      /\ rcv[s].pc = "receive" <=> rcv[s].fd # 0
  BY ReceiverHas
<1>2. /\ rcv[s].pc \in {"open", "receive"} /\ i \in Files
      /\ rcv[s].pc \in Saving
  <2>1. rcv[s].pc \in {"open", "receive"} /\ (rcv[s].pc = "open" => i \in Files)
    BY DEF SkipComplete, OpenPart, Opening, ReceiveChunk, Mismatch, CloseFile, AllReceived
  <2> QED BY <2>1, ReceiverHas DEF Saving
<1>3. manifest[s][i] \in Entry /\ manifest[s][i].size \in Nat
  <2>1. manifest[s] \in [Files -> Entry]
    BY <1>2, ReceiverHas
  <2>2. manifest[s][i] \in Entry
    BY <1>2, <2>1
  <2> QED BY <2>2 DEF Entry
<1>4. rcv[s].parts \in Seq(Part) /\ rcv[s].parts[i] \in Part
      /\ PartFits(rcv[s].parts[i], manifest[s][i].size)
  <2>1. Len(rcv[s].parts) = NumFiles /\ rcv[s].parts \in Seq(Part)
    BY <1>1, <1>2 DEF StreamInv, ReceiverFits, Receiverly
  <2> QED BY <1>1, <1>2, <2>1 DEF StreamInv, ReceiverFits, Files
<1>5. wire = [wire EXCEPT ![s] = wire[s]] /\ back = [back EXCEPT ![s] = back[s]]
      /\ wire \in [Senders -> Seq(Piece)] /\ back \in [Senders -> Seq(Answer)]
  BY Stays DEF TransferInv, StreamVars
<1>6. CASE SkipComplete(s)
  <2> DEFINE r == [rcv[s] EXCEPT !.file = i + 1]
  <2>1. i + 1 \in 0 .. NumFiles + 1
    BY <1>2, OfferAssumption DEF Files
  <2>2. r.pc = "open" /\ r.file = i + 1 /\ r.parts = rcv[s].parts /\ r.fd = rcv[s].fd
        /\ r \in Receiverly
    BY <1>1, <1>6, <2>1 DEF Receiverly, SkipComplete, Opening
  <2>3. Receives(s, r, dir, data) /\ UNCHANGED <<up, wire, back, marks, stale>>
    BY <1>6 DEF SkipComplete, ReceiveGoesOn
  <2>4. rcv[s].pc = "open" /\ Expected(manifest[s], rcv[s]) = manifest[s][i].size
    BY <1>4, <1>6 DEF SkipComplete, Opening, Expected, PartFits
  <2> HIDE DEF r, Receives
  <2>5. rcv[s].pc \in Saving \ {"receive"} /\ marks' \subseteq Chunks
    BY <1>1, <2>3, <2>4 DEF Saving
  <2> QED BY <1>2, <2>2, <2>3, <2>4, <2>5, NextPartHolds
<1>7. CASE OpenPart(s)
  <2> DEFINE part == rcv[s].parts[i]
             inode == IF IsTaken(name) THEN dir[name] ELSE NewInode
             old == IF IsTaken(name) THEN data[inode] ELSE <<>>
             c == Truncated(old, part.offset)
             x == [n \in DOMAIN data \cup {inode} |-> IF n = inode THEN c ELSE data[n]]
             d == Bind(dir, name, inode)
             r == [rcv[s] EXCEPT !.pc = "receive", !.fd = inode, !.got = part.got]
  <2>1. /\ Receives(s, r, d, x) /\ UNCHANGED <<up, wire, back, marks, stale>>
        /\ rcv[s].pc = "open" /\ ~part.complete
    BY <1>7 DEF OpenPart, Opening
  <2>2. inode \in Nat \ {0} /\ old \in Chunks
    BY <1>1, TakenHasContent, NewInodeIsNew DEF Chunks
  <2>3. part.offset \in Nat /\ part.got \in Chunks /\ Len(part.got) = part.offset
    BY <1>4, <2>1 DEF Part, PartFits
  <2> HIDE DEF inode, old
  <2>4. c \in Chunks
    BY <2>2, <2>3, ContentsAreChunks
  <2>5. FolderFits(dir, x)
    BY <1>1, <2>2, <2>4, ContentFits
  <2>6. inode \in DOMAIN x /\ DOMAIN data \subseteq DOMAIN x
    OBVIOUS
  <2> HIDE DEF c, x, part
  <2>7. FolderFits(d, x)
    BY <2>5, <2>6, BindFits
  <2>8. r.pc = "receive" /\ r.file = i /\ r.parts = rcv[s].parts /\ r.fd = inode
        /\ r.got = part.got
    BY <1>1 DEF Receiverly
  <2>9. r \in Receiverly
    BY <1>1, <2>2, <2>3 DEF Receiverly, ReceiveLabels
  <2> HIDE DEF r, d, Receives
  <2>10. Expected(manifest[s], r) = Expected(manifest[s], rcv[s])
    BY <2>1, <2>3, <2>8 DEF Expected, part
  <2>11. Len(r.got) <= manifest[s][i].size
    BY <1>4, <2>3, <2>8 DEF PartFits, part
  <2>12. StreamInv(manifest[s], snd[s], r, wire[s], back[s])
    BY <1>1, <1>2, <2>2, <2>8, <2>9, <2>10, <2>11, SavingGoesOn DEF Saving
  <2>13. wire' = [wire EXCEPT ![s] = wire[s]] /\ back' = [back EXCEPT ![s] = back[s]]
         /\ up' \in [Senders -> BOOLEAN] /\ marks' \subseteq Chunks /\ stale' \in BOOLEAN
    BY <1>1, <1>5, <2>1
  <2>14. r.fd \in DOMAIN x \cup {0}
    BY <2>6, <2>8
  <2> QED BY <2>1, <2>6, <2>7, <2>12, <2>13, <2>14, ReceiverMoves
<1>8. CASE ReceiveChunk(s)
  <2> DEFINE fd == rcv[s].fd
             chunk == Head(wire[s]).chunk
             got == Append(rcv[s].got, chunk)
             r == [rcv[s] EXCEPT !.got = got]
             c == Written(data[fd], Len(rcv[s].got), chunk)
             x == [data EXCEPT ![fd] = c]
             w == Tail(wire[s])
  <2>1. rcv[s].pc = "receive" /\ Len(rcv[s].got) < manifest[s][i].size /\ wire[s] # <<>>
        /\ UNCHANGED <<up, back, marks, stale>>
    BY <1>8 DEF ReceiveChunk, Info
  <2>2. wire[s] \in Seq(Piece) /\ rcv[s].got \in Seq(Nat)
    BY <1>1, <1>5 DEF Receiverly, Chunks
  <2>3. Head(wire[s]) = wire[s][1] /\ wire[s][1] \in Piece
    BY <2>1, <2>2
  <2>4. chunk \in Nat
    BY <2>3 DEF Piece
  <2>5. fd \in DOMAIN data /\ data[fd] \in Chunks /\ fd \in Nat \ {0}
    BY <1>1, <2>1 DEF FolderTypes
  <2>6. wire' = [wire EXCEPT ![s] = w]
    BY <1>5, <1>8 DEF ReceiveChunk
  <2>7. Receives(s, r, dir, x)
    BY <1>1, <1>8, <2>5 DEF ReceiveChunk, FolderTypes, Receiverly
  <2> HIDE DEF chunk
  <2>8. got \in Chunks
    BY <2>2, <2>4 DEF Chunks
  <2> HIDE DEF got
  <2>9. r.pc = "receive" /\ r.file = i /\ r.parts = rcv[s].parts /\ r.fd = fd
        /\ r.got = got /\ r \in Receiverly
    BY <1>1, <2>1, <2>8 DEF Receiverly
  <2> HIDE DEF r
  <2>10. StreamInv(manifest[s], snd[s], r, w, back[s])
    <3>1. got = Append(rcv[s].got, wire[s][1].chunk)
      BY <2>3 DEF got, chunk
    <3>2. StreamInv(manifest[s], snd[s], rcv[s], wire[s], back[s])
          /\ Len(rcv[s].got) < manifest[s][rcv[s].file].size
      BY <1>1, <2>1
    <3> QED BY <2>1, <2>9, <3>1, <3>2, ChunkIsTaken
  <2>11. c \in Chunks
    <3>1. Len(rcv[s].got) \in Nat
      BY <2>2
    <3> QED BY <2>4, <2>5, <3>1, ContentsAreChunks
  <2> HIDE DEF c
  <2>12. FolderFits(dir, x) /\ DOMAIN x = DOMAIN data
    BY <1>1, <2>5, <2>11 DEF FolderFits
  <2> HIDE DEF x, Receives, w
  <2>13. back' = [back EXCEPT ![s] = back[s]]
         /\ up' \in [Senders -> BOOLEAN] /\ marks' \subseteq Chunks /\ stale' \in BOOLEAN
    BY <1>1, <1>5, <2>1
  <2>14. r.fd \in DOMAIN x \cup {0}
    BY <2>5, <2>9, <2>12
  <2> QED BY <2>6, <2>7, <2>10, <2>12, <2>13, <2>14, ReceiverMoves
<1>9. CASE Mismatch(s)
  <2>1. rcv[s].pc = "receive" /\ Receives(s, Receiver("failed"), Unbind(dir, name), data)
        /\ up' = [up EXCEPT ![s] = FALSE] /\ UNCHANGED <<wire, marks, stale>>
        /\ back' = [back EXCEPT ![s] = back[s] \o <<Refusal>>]
    BY <1>5, <1>9 DEF Mismatch, AllReceived, ReceiveFails
  <2>2. FolderFits(Unbind(dir, name), data)
    BY <1>1, UnbindFits
  <2> HIDE DEF Receives
  <2> QED BY <2>1, <2>2, FailingHolds
<1>10. CASE CloseFile(s)
  <2> DEFINE r == [rcv[s] EXCEPT !.pc = "look", !.fd = 0, !.got = <<>>]
  <2>1. r.pc = "look" /\ r.file = i /\ r.parts = rcv[s].parts /\ r.fd = 0
    BY <1>1 DEF Receiverly
  <2>6. <<>> \in Chunks
    BY DEF Chunks
  <2>2. r \in Receiverly
    BY <1>1, <2>6 DEF Receiverly, ReceiveLabels
  <2>3. Receives(s, r, dir, data) /\ UNCHANGED <<up, wire, back, marks, stale>>
    BY <1>10 DEF CloseFile, ReceiveGoesOn
  <2>4. Expected(manifest[s], rcv[s]) = manifest[s][i].size
    BY <1>10 DEF CloseFile, AllReceived, Info, Expected
  <2> HIDE DEF r, Receives
  <2>5. r.pc \in Saving \ {"open", "receive"}
    BY <2>1 DEF Saving
  <2> QED BY <1>1, <1>2, <2>1, <2>2, <2>3, <2>4, <2>5, FileGoesOn
<1> QED BY <1>6, <1>7, <1>8, <1>9, <1>10

\* place, and the mark behind it.
LEMMA PlacingHolds ==
    ASSUME TransferInv, NEW s \in Senders,
           \/ KeepTarget(s) \/ StartPlacing(s) \/ Link(s) \/ LookFirst(s)
           \/ Rename(s) \/ NameTaken(s) \/ PlaceFails(s) \/ Unlink(s) \/ Mark(s)
    PROVE  TransferInv'
<1> DEFINE i == rcv[s].file
           At(r) == /\ r.pc \in Saving \ {"open", "receive"}
                    /\ r.file = rcv[s].file /\ r.parts = rcv[s].parts /\ r.fd = 0
<1>1. /\ rcv[s] \in Receiverly /\ FolderFits(dir, data) /\ FolderTypes
      /\ marks \subseteq Chunks
      /\ rcv[s].pc = "receive" <=> rcv[s].fd # 0
  BY ReceiverHas
<1>2. rcv[s].pc \in {"look", "place", "rename", "unlink", "mark"}
  BY DEF KeepTarget, StartPlacing, Link, LookFirst, Rename, NameTaken, PlaceFails,
         Unlink, Mark, Placing
<1>3. rcv[s].pc \in Saving /\ i \in Files /\ rcv[s].fd = 0
  BY <1>1, <1>2, ReceiverHas DEF Saving
<1>4. Expected(manifest[s], rcv[s]) = manifest[s][i].size
  BY <1>2 DEF Expected
<1>5. ASSUME NEW r \in Receiverly, At(r),
             NEW d, Receives(s, r, d, data), FolderFits(d, data),
             UNCHANGED <<up, wire, back, marks, stale>>
      PROVE  TransferInv'
  <2> HIDE DEF Receives
  <2> QED BY <1>3, <1>4, <1>5, FileGoesOn
<1>6. ASSUME NEW pc \in {"mark", "rename", "unlink"}
      PROVE  [rcv[s] EXCEPT !.pc = pc] \in Receiverly /\ At([rcv[s] EXCEPT !.pc = pc])
  BY <1>1, <1>3 DEF Receiverly, ReceiveLabels, Saving
<1>7. FolderFits(Unbind(dir, Source(s)), data)
  BY <1>1, UnbindFits
<1>8. ASSUME IsTaken(Source(s))
      PROVE  /\ FolderFits(Bind(dir, Candidate(s), dir[Source(s)]), data)
             /\ FolderFits(Unbind(Bind(dir, Candidate(s), dir[Source(s)]), Source(s)), data)
  <2>1. dir[Source(s)] \in DOMAIN data
    BY <1>1, <1>8, TakenHasContent
  <2>2. FolderFits(Bind(dir, Candidate(s), dir[Source(s)]), data)
    BY <1>1, <2>1, BindFits
  <2> QED BY <2>2, UnbindBindFits
<1>9. CASE KeepTarget(s)
  <2>1. Receives(s, [rcv[s] EXCEPT !.pc = "mark"], Unbind(dir, Source(s)), data)
        /\ UNCHANGED <<up, wire, back, marks, stale>>
    BY <1>9 DEF KeepTarget, Source
  <2> HIDE DEF Receives, At
  <2> QED BY <1>5, <1>6, <1>7, <2>1
<1>10. CASE StartPlacing(s)
  <2> DEFINE r == [rcv[s] EXCEPT !.pc = "place", !.cand = 0]
  <2>1. 0 \in 0 .. MaxNameTries
    BY TransferAssumption
  <2>2. r \in Receiverly
    BY <1>1, <2>1 DEF Receiverly, ReceiveLabels
  <2>3. At(r)
    BY <1>1, <1>3 DEF Receiverly, Saving
  <2>4. Receives(s, r, dir, data) /\ UNCHANGED <<up, wire, back, marks, stale>>
    BY <1>10 DEF StartPlacing, ReceiveGoesOn
  <2> HIDE DEF Receives, At, r
  <2> QED BY <1>1, <1>5, <2>2, <2>3, <2>4
<1>11. CASE Link(s)
  <2>1. /\ IsTaken(Source(s)) /\ UNCHANGED <<up, wire, back, marks, stale>>
        /\ Receives(s, [rcv[s] EXCEPT !.pc = "unlink"],
                    Bind(dir, Candidate(s), dir[Source(s)]), data)
    BY <1>11 DEF Link
  <2> HIDE DEF Receives, At
  <2> QED BY <1>5, <1>6, <1>8, <2>1
<1>12. CASE LookFirst(s)
  <2>1. /\ UNCHANGED <<up, wire, back, marks, stale>>
        /\ Receives(s, [rcv[s] EXCEPT !.pc = "rename"], dir, data)
    BY <1>12 DEF LookFirst, ReceiveGoesOn
  <2> HIDE DEF Receives, At
  <2> QED BY <1>1, <1>5, <1>6, <2>1
<1>13. CASE Rename(s)
  <2>1. /\ IsTaken(Source(s)) /\ UNCHANGED <<up, wire, back, marks, stale>>
        /\ Receives(s, [rcv[s] EXCEPT !.pc = "mark"],
                    Unbind(Bind(dir, Candidate(s), dir[Source(s)]), Source(s)), data)
    BY <1>13 DEF Rename
  <2> HIDE DEF Receives, At
  <2> QED BY <1>5, <1>6, <1>8, <2>1
<1>14. CASE NameTaken(s)
  <2> DEFINE k == rcv[s].cand + 1
             r == [rcv[s] EXCEPT !.cand = k]
  <2>1. k \in 0 .. MaxNameTries /\ rcv[s].pc = "place"
    BY <1>1, <1>14, TransferAssumption DEF NameTaken, Placing, Receiverly
  <2>2. Receives(s, r, dir, data) /\ UNCHANGED <<up, wire, back, marks, stale>>
    BY <1>1, <1>14 DEF NameTaken, ReceiveGoesOn, Receiverly
  <2> HIDE DEF k
  <2>3. r \in Receiverly
    BY <1>1, <2>1 DEF Receiverly
  <2>4. At(r)
    BY <1>1, <1>3, <2>1 DEF Receiverly, Saving
  <2> HIDE DEF Receives, At, r
  <2> QED BY <1>1, <1>5, <2>2, <2>3, <2>4
<1>15. CASE PlaceFails(s)
  <2>1. Receives(s, Receiver("failed"), dir, data)
        /\ up' = [up EXCEPT ![s] = FALSE] /\ UNCHANGED <<wire, marks, stale>>
        /\ back' = [back EXCEPT ![s] = back[s] \o <<Refusal>>]
    BY <1>15 DEF PlaceFails, ReceiveFails, TransferInv, StreamVars
  <2> HIDE DEF Receives
  <2> QED BY <1>1, <1>2, <2>1, FailingHolds
<1>16. CASE Unlink(s)
  <2>1. Receives(s, [rcv[s] EXCEPT !.pc = "mark"], Unbind(dir, Source(s)), data)
        /\ UNCHANGED <<up, wire, back, marks, stale>>
    BY <1>16 DEF Unlink
  <2> HIDE DEF Receives, At
  <2> QED BY <1>5, <1>6, <1>7, <2>1
<1>17. CASE Mark(s)
  <2> DEFINE k == i + 1
             r == [rcv[s] EXCEPT !.pc = "open", !.file = k, !.cand = 0]
  <2>1. k \in 0 .. NumFiles + 1 /\ 0 \in 0 .. MaxNameTries
    BY <1>3, OfferAssumption, TransferAssumption DEF Files
  <2>2. Receives(s, r, dir, data) /\ UNCHANGED <<up, wire, back, stale>>
        /\ marks' = marks \cup {Info(s).digest} /\ rcv[s].pc = "mark"
    BY <1>1, <1>17 DEF Mark, Receiverly
  <2> HIDE DEF k
  <2>3. r \in Receiverly
    BY <1>1, <2>1 DEF Receiverly, ReceiveLabels
  <2>4. r.pc = "open" /\ r.file = k /\ r.parts = rcv[s].parts /\ r.fd = rcv[s].fd
    BY <1>1 DEF Receiverly
  <2>5. Info(s).digest \in Chunks
    <3>1. manifest[s] \in [Files -> Entry]
      BY <1>3, ReceiverHas
    <3>2. manifest[s][i] \in Entry
      BY <1>3, <3>1
    <3> QED BY <3>2 DEF Info, Entry
  <2>6. marks' \subseteq Chunks /\ rcv[s].pc \in Saving \ {"receive"}
    BY <1>1, <1>3, <2>2, <2>5
  <2> HIDE DEF Receives, r
  <2> QED BY <1>3, <1>4, <2>2, <2>3, <2>4, <2>6, NextPartHolds DEF k
<1> QED BY <1>9, <1>10, <1>11, <1>12, <1>13, <1>14, <1>15, <1>16, <1>17

\* The end of Receive.
LEMMA FinishingHolds ==
    ASSUME TransferInv, NEW s \in Senders,
           Acknowledge(s) \/ ForgetFinished(s) \/ LingerEnds(s)
    PROVE  TransferInv'
<1>1. /\ StreamInv(manifest[s], snd[s], rcv[s], wire[s], back[s])
      /\ rcv[s] \in Receiverly /\ FolderFits(dir, data)
      /\ marks \subseteq Chunks /\ stale \in BOOLEAN
      /\ up \in [Senders -> BOOLEAN]
  BY ReceiverHas
<1>2. wire = [wire EXCEPT ![s] = wire[s]] /\ back \in [Senders -> Seq(Answer)]
  BY Stays DEF TransferInv, StreamVars
<1>3. CASE Acknowledge(s)
  <2> DEFINE r == [rcv[s] EXCEPT !.pc = "forget"]
             b == Append(back[s], Accept(<<>>))
  <2>1. r.pc = "forget" /\ r.fd = rcv[s].fd /\ r \in Receiverly
    BY <1>1 DEF Receiverly, ReceiveLabels
  <2>2. rcv[s].pc = "open" /\ Receives(s, r, dir, data)
        /\ UNCHANGED <<up, wire, marks, stale>> /\ back' = [back EXCEPT ![s] = b]
    BY <1>2, <1>3 DEF Acknowledge
  <2> HIDE DEF r, Receives
  <2>3. StreamInv(manifest[s], snd[s], r, wire[s], b)
    BY <1>1, <2>1, <2>2, TransferIsAcknowledged
  <2>4. wire' = [wire EXCEPT ![s] = wire[s]] /\ up' \in [Senders -> BOOLEAN]
        /\ marks' \subseteq Chunks /\ stale' \in BOOLEAN /\ r.fd \in {0, rcv[s].fd}
    BY <1>1, <1>2, <2>1, <2>2
  <2> HIDE DEF b
  <2> QED BY <1>1, <2>2, <2>3, <2>4, NamesMove
<1>4. ASSUME NEW to \in {"linger", "done"}, Receives(s, Receiver(to), dir, data),
             rcv[s].pc \in Finishing, UNCHANGED <<up, wire, back, stale>>,
             marks' \subseteq marks
      PROVE  TransferInv'
  <2>1. StreamInv(manifest[s], snd[s], Receiver(to), wire[s], back[s])
    BY <1>1, <1>4, ReceiverFinishes
  <2>2. Receiver(to).fd \in {0, rcv[s].fd}
    BY DEF Receiver
  <2>3. marks' \subseteq Chunks /\ stale' \in BOOLEAN
    BY <1>1, <1>4
  <2> HIDE DEF Receives
  <2> QED BY <1>1, <1>4, <2>1, <2>2, <2>3, NamesMoveSilently
<1>5. CASE ForgetFinished(s)
  BY <1>4, <1>5 DEF ForgetFinished, Finishing
<1>6. CASE LingerEnds(s)
  BY <1>4, <1>6 DEF LingerEnds, ReceiveGoesOn, Finishing
<1> QED BY <1>3, <1>5, <1>6

\* Every step of Receive keeps the invariant.
LEMMA ReceiveStepHolds ==
    ASSUME TransferInv, NEW s \in Senders, ReceiveStep(s)
    PROVE  TransferInv'
BY OfferingHolds, ResumingHolds, ReceivingHolds, PlacingHolds, FinishingHolds
   DEF ReceiveStep

\* A new attempt, over a new stream, keeps the invariant.
LEMMA AttemptHolds ==
    ASSUME TransferInv, NEW s \in Senders, Attempt(s)
    PROVE  TransferInv'
<1>1. StreamVars /\ StreamsInv /\ OfferInv /\ FolderTypes
  BY DEF TransferInv
<1>2. /\ snd[s].pc = "idle" /\ UNCHANGED <<offerVars, folder>>
      /\ snd' = [snd EXCEPT ![s] = Sender("waiting")]
      /\ rcv' = [rcv EXCEPT ![s] = Receiver("offer")]
      /\ manifest' = [manifest EXCEPT ![s] = <<>>]
      /\ wire' = [wire EXCEPT ![s] = <<>>]
      /\ back' = [back EXCEPT ![s] = <<>>]
  BY DEF Attempt
<1>3. up' \in [Senders -> BOOLEAN]
  BY <1>1 DEF Attempt, StreamVars
<1>4. StreamInv(<<>>, Sender("waiting"), Receiver("offer"), <<>>, <<>>)
  BY AttemptStarts
<1>5. StreamVars' /\ StreamsInv'
  BY <1>1, <1>2, <1>3, <1>4, Others
<1>6. OfferInv'
  <2>1. Sender("waiting").pc = "waiting"
    BY DEF Sender
  <2> QED BY <1>1, <1>2, <2>1, OfferKept DEF TransferInv
<1>7. FolderTypes'
  <2>1. Receiver("offer").fd = 0
    BY DEF Receiver
  <2>2. \A t \in Senders : rcv'[t].fd \in {0, rcv[t].fd}
    BY <1>1, <1>2, <2>1 DEF StreamVars
  <2>3. UNCHANGED <<dir, data, marks, stale>>
    BY <1>2 DEF folder
  <2> QED BY <1>1, <2>2, <2>3 DEF FolderTypes
<1> QED BY <1>5, <1>6, <1>7 DEF TransferInv

\* Whatever leaves the streams and the folder alone.
LEMMA FilesChangeHolds ==
    ASSUME TransferInv, OfferInv', UNCHANGED <<manifest, snd, rcv, wire, back, folder>>,
           up' \in [Senders -> BOOLEAN]
    PROVE  TransferInv'
<1>1. StreamVars /\ StreamsInv /\ FolderTypes
  BY DEF TransferInv
<1>2. StreamVars'
  BY <1>1 DEF StreamVars
<1>3. StreamsInv'
  BY <1>1 DEF StreamsInv, Stream
<1>4. FolderTypes'
  BY <1>1 DEF FolderTypes, folder
<1> QED BY <1>2, <1>3, <1>4 DEF TransferInv

\* Whatever goes wrong, the invariant holds.
LEMMA DisturbHolds ==
    ASSUME TransferInv, Disturb
    PROVE  TransferInv'
<1>1. StreamVars /\ StreamsInv /\ OfferInv /\ FolderTypes /\ up \in [Senders -> BOOLEAN]
  BY DEF TransferInv, StreamVars
<1>2. ASSUME NEW s \in Senders, NEW i \in Files, OwnerEdits(s, i)
      PROVE  TransferInv'
  <2>1. UNCHANGED <<streams, snd, rcv, folder>> /\ (Edit(s, i) \/ Delete(s, i))
    BY <1>2 DEF OwnerEdits
  <2>2. OfferInv'
    BY <1>1, <2>1, OwnerKeepsOffer
  <2> QED BY <1>1, <2>1, <2>2, FilesChangeHolds DEF streams
<1>3. ASSUME NEW s \in Senders, Drop(s)
      PROVE  TransferInv'
  <2>1. UNCHANGED <<offerVars, manifest, snd, rcv, wire, back, folder>>
        /\ up' = [up EXCEPT ![s] = FALSE]
    BY <1>3 DEF Drop
  <2>2. OfferInv'
    BY <1>1, <2>1, OfferRests
  <2> QED BY <1>1, <2>1, <2>2, FilesChangeHolds
<1>4. ASSUME NEW s \in Senders, Crash(s)
      PROVE  TransferInv'
  <2>1. /\ rcv[s].pc # "failed" /\ Receives(s, Receiver("failed"), dir, data)
        /\ up' = [up EXCEPT ![s] = FALSE] /\ UNCHANGED <<wire, back, marks, stale>>
    BY <1>4 DEF Crash, IsRunning
  <2>2. back' = [back EXCEPT ![s] = back[s] \o <<>>]
    <3>1. back[s] \in Seq(Answer) /\ back = [back EXCEPT ![s] = back[s]]
      BY <1>1, Stays DEF StreamVars
    <3>2. back[s] \o <<>> = back[s]
      BY <3>1
    <3> QED BY <2>1, <3>1, <3>2
  <2> HIDE DEF Receives
  <2> QED BY <1>1, <2>1, <2>2, FolderStays, FailingHolds
<1>5. ASSUME NEW s \in Senders, UserDeclines(s)
      PROVE  TransferInv'
  BY <1>5, OfferingHolds DEF UserDeclines
<1>6. ASSUME NEW i \in Files, ForeignFile(i)
      PROVE  TransferInv'
  <2>1. PICK c \in Contents :
          Folder(Bind(dir, Numbered(i, 0), NewInode),
                 [n \in DOMAIN data \cup {NewInode} |-> IF n = NewInode THEN c ELSE data[n]],
                 rcv)
    BY <1>6 DEF ForeignFile
  <2> DEFINE x == [n \in DOMAIN data \cup {NewInode} |->
                     IF n = NewInode THEN c ELSE data[n]]
  <2>2. NewInode \in Nat \ {0} /\ c \in Chunks
    BY <1>1, NewInodeIsNew, OfferAssumption DEF Chunks
  <2>3. FolderFits(dir, x)
    BY <1>1, <2>2, ContentFits
  <2>4. NewInode \in DOMAIN x /\ DOMAIN data \subseteq DOMAIN x
    OBVIOUS
  <2> HIDE DEF x
  <2>5. FolderFits(Bind(dir, Numbered(i, 0), NewInode), x)
    BY <2>3, <2>4, BindFits
  <2>6. UNCHANGED <<offerVars, up, wire, back, manifest, snd, rcv, marks, stale>>
    BY <1>6, <2>1 DEF ForeignFile, streams, Folder
  <2>7. \A s \in Senders : rcv[s].fd \in DOMAIN x \cup {0}
    BY <1>1, <2>4 DEF FolderTypes
  <2>8. FolderTypes'
    <3>1. marks' \subseteq Chunks /\ stale' \in BOOLEAN
      BY <1>1, <2>6 DEF FolderTypes
    <3>2. Folder(Bind(dir, Numbered(i, 0), NewInode), x, rcv)
      BY <2>1 DEF x
    <3> HIDE DEF Folder
    <3> QED BY <2>5, <2>7, <3>1, <3>2, FolderHolds
  <2>9. OfferInv'
    BY <1>1, <2>6, OfferRests
  <2>10. StreamVars' /\ StreamsInv'
    BY <1>1, <2>6 DEF StreamVars, StreamsInv, Stream
  <2> QED BY <2>8, <2>9, <2>10 DEF TransferInv
<1>7. CASE WeekPasses
  <2>1. UNCHANGED <<offerVars, streams, snd, rcv, dir, data, marks>> /\ stale' = TRUE
    BY <1>7 DEF WeekPasses
  <2>2. OfferInv'
    BY <1>1, <2>1, OfferRests
  <2>3. StreamVars' /\ StreamsInv'
    BY <1>1, <2>1 DEF StreamVars, StreamsInv, Stream, streams
  <2>4. FolderTypes'
    BY <1>1, <2>1 DEF FolderTypes
  <2> QED BY <2>2, <2>3, <2>4 DEF TransferInv
<1> QED BY <1>2, <1>3, <1>4, <1>5, <1>6, <1>7 DEF Disturb

\* The invariant is inductive.
LEMMA NextHolds == TransferInv /\ [Next]_vars => TransferInv'
<1> SUFFICES ASSUME TransferInv, [Next]_vars PROVE TransferInv'
  OBVIOUS
<1>1. OfferInv /\ up \in [Senders -> BOOLEAN]
  BY DEF TransferInv, StreamVars
<1>2. ASSUME NEW s \in Senders, OfferStep(s) PROVE TransferInv'
  <2>1. UNCHANGED <<streams, snd, rcv, folder>>
        /\ (Prepare(s) \/ Digest(s) \/ (snd[s].pc = "checking" /\ Recheck(s)))
    BY <1>2 DEF OfferStep
  <2>2. OfferInv'
    BY <1>1, <2>1, OfferStepHolds
  <2> QED BY <1>1, <2>1, <2>2, FilesChangeHolds DEF streams
<1>3. CASE UNCHANGED vars
  <2>1. UNCHANGED <<offerVars, streams, snd, rcv, folder>>
    BY <1>3 DEF vars
  <2>2. OfferInv'
    BY <1>1, <2>1, OfferRests
  <2> QED BY <1>1, <2>1, <2>2, FilesChangeHolds DEF streams
<1>4. CASE Rest
  BY <1>3, <1>4 DEF Rest
<1> QED BY <1>2, <1>3, <1>4, SendStepHolds, ReceiveStepHolds, AttemptHolds, DisturbHolds
        DEF Next

\* The invariant holds in every reachable state.
LEMMA InvariantHolds == Spec => []TransferInv
BY InitHolds, NextHolds, PTL DEF Spec

-----------------------------------------------------------------------------
(* What follows.                                                           *)

\* Every variable of the transfers keeps its type: no place in a file or in the
\* list of files is out of its range, every name in the folder and every file a
\* receiver has open has an inode, and one is open exactly while it is received.
THEOREM TypesHold == Spec => []TypeOK
<1>1. TransferInv => TypeOK
  <2> SUFFICES ASSUME TransferInv PROVE TypeOK
    OBVIOUS
  <2>1. \A s \in Senders : rcv[s].pc = "receive" <=> rcv[s].fd # 0
    BY ReceiverHas
  <2>2. StreamVars /\ FolderTypes
    BY DEF TransferInv
  <2>3. /\ snd \in [Senders -> Senderly] /\ rcv \in [Senders -> Receiverly]
        /\ up \in [Senders -> BOOLEAN] /\ wire \in [Senders -> Seq(Piece)]
        /\ back \in [Senders -> Seq(Answer)] /\ manifest \in [Senders -> Seq(Entry)]
    BY <2>2 DEF StreamVars
  <2>4. /\ data \in [DOMAIN data -> Chunks] /\ dir \in [DOMAIN dir -> DOMAIN data]
        /\ marks \subseteq Chunks /\ stale \in BOOLEAN
        /\ \A s \in Senders : rcv[s].fd \in DOMAIN data \cup {0}
    BY <2>2 DEF FolderTypes
  <2> QED BY <2>1, <2>3, <2>4
          DEF TypeOK, Senderly, Receiverly, Part, Piece, Answer, Entry
<1> QED BY <1>1, InvariantHolds, PTL

\* checkOffsets never refuses an honest receiver: the offsets that resumeFrom
\* finds, whatever earlier attempts, crashes and the user left in the folder, are
\* within the sizes of the manifest they answer.
THEOREM OffersFit == Spec => []OffsetsFit
<1>1. TransferInv => OffsetsFit
  <2> SUFFICES ASSUME TransferInv, NEW s \in Senders, snd[s].pc = "offered",
                      back[s] # <<>>, back[s][1].ok, NEW i \in Files
               PROVE  back[s][1].offsets[i] \in 0 .. manifest[s][i].size
    BY DEF OffsetsFit
  <2>1. StreamInv(manifest[s], snd[s], rcv[s], wire[s], back[s])
    BY ReceiverHas
  <2>2. /\ back[s] \in Seq(Answer) /\ manifest[s] \in Seq(Entry)
        /\ DOMAIN manifest[s] = Files /\ Fit(back[s][1].offsets, manifest[s])
    BY <2>1 DEF StreamInv, StreamTypes, HasManifest, SenderFits
  <2>3. manifest[s][i] \in Entry
    BY <2>2
  <2>4. manifest[s][i].size \in Nat
    BY <2>3 DEF Entry
  <2>5. back[s][1] \in Answer
    BY <2>2
  <2>6. back[s][1].offsets \in Seq(Nat)
    BY <2>5 DEF Answer
  <2>7. back[s][1].offsets[i] \in Nat
    BY <2>2, <2>6 DEF Fit
  <2> QED BY <2>2, <2>4, <2>7 DEF Fit
<1> QED BY <1>1, InvariantHolds, PTL

\* A step that makes the wire of a receiver in the middle of a file shorter is
\* ReceiveChunk's: all others leave the wire, add to it, or begin an attempt.
LEMMA OnlyChunksAreTaken ==
    ASSUME TransferInv, [Next]_vars, NEW s \in Senders, rcv[s].pc = "receive",
           wire'[s] # wire[s], Len(wire'[s]) < Len(wire[s])
    PROVE  ReceiveChunk(s)
<1>1. wire \in [Senders -> Seq(Piece)]
  BY DEF TransferInv, StreamVars
<1>2. StreamInv(manifest[s], snd[s], rcv[s], wire[s], back[s])
  BY ReceiverHas
<1>3. ASSUME NEW t \in Senders, SendStep(t) PROVE FALSE
  <2>1. CASE SendManifest(t)
    <3>1. t = s
      BY <1>1, <2>1 DEF SendManifest
    <3>2. rcv[s].pc \in {"offer", "failed"}
      BY <1>2, <2>1, <3>1 DEF SendManifest, StreamInv, TakesTurns
    <3> QED BY <3>2
  <2>2. CASE SendChunk(t)
    <3>1. PICK x : wire' = [wire EXCEPT ![t] = Append(@, x)]
      BY <2>2 DEF SendChunk
    <3>2. t = s /\ wire'[s] = Append(wire[s], x)
      BY <1>1, <3>1
    <3>3. Len(Append(wire[s], x)) = Len(wire[s]) + 1 /\ Len(wire[s]) \in Nat
      BY <1>1
    <3> QED BY <3>2, <3>3
  <2>3. CASE ~SendManifest(t) /\ ~SendChunk(t)
    BY <1>3, <2>3 DEF SendStep, WaitEnds, OfferFailed, FileIsGone, Accepted, Refused,
       FileShrank, FileCannotOpen, NextFile, Acknowledged, SendLost, SendReturns, streams
  <2> QED BY <2>1, <2>2, <2>3
<1>4. ASSUME NEW t \in Senders, ReceiveStep(t) PROVE ReceiveChunk(s)
  <2>1. CASE TakeOffer(t)
    <3>1. t = s
      BY <1>1, <2>1 DEF TakeOffer
    <3> QED BY <2>1, <3>1 DEF TakeOffer
  <2>2. CASE ReceiveChunk(t)
    <3>1. wire' = [wire EXCEPT ![t] = Tail(@)]
      BY <2>2 DEF ReceiveChunk
    <3>2. t = s
      BY <1>1, <3>1
    <3> QED BY <2>2, <3>2
  <2>3. CASE ~TakeOffer(t) /\ ~ReceiveChunk(t)
    <3>1. UNCHANGED wire
      BY <1>4, <2>3 DEF ReceiveStep, ReceiveLost, ReceiveFails, ReceiveGoesOn, Resume,
         Sweep, ResumeComplete, ResumePartial, ResumeAfresh, SendAccept, SkipComplete,
         OpenPart, Mismatch, CloseFile, KeepTarget, StartPlacing, Link, LookFirst,
         Rename, NameTaken, PlaceFails, Unlink, Mark, Acknowledge, ForgetFinished,
         LingerEnds
    <3> QED BY <3>1
  <2> QED BY <2>1, <2>2, <2>3
<1>5. ASSUME NEW t \in Senders, Attempt(t) PROVE FALSE
  <2>1. t = s
    BY <1>1, <1>5 DEF Attempt
  <2> QED BY <1>5, <2>1 DEF Attempt
<1>6. ASSUME Disturb PROVE FALSE
  BY <1>6 DEF Disturb, OwnerEdits, Drop, Crash, UserDeclines, Decline, ForeignFile,
     WeekPasses, streams
<1>7. ASSUME NEW t \in Senders, OfferStep(t) PROVE FALSE
  BY <1>7 DEF OfferStep, streams
<1>8. CASE Rest \/ UNCHANGED vars
  BY <1>8 DEF Rest, vars, streams
<1> QED BY <1>3, <1>4, <1>5, <1>6, <1>7, <1>8 DEF Next

\* Both sides count the same: sendFile and receiveFile agree on the file and the
\* place in it of every chunk, though the stream carries neither, the receiver
\* resumes and skips files as it likes and the sender's files change under it.
THEOREM BytesLand == Spec => BytesLandWhereRead
<1> DEFINE A == \A s \in Senders :
                  rcv[s].pc = "receive" /\ wire'[s] # wire[s]
                    /\ Len(wire'[s]) < Len(wire[s]) =>
                      /\ Head(wire[s]).file = rcv[s].file
                      /\ Head(wire[s]).at = Len(rcv[s].got)
<1>1. TransferInv /\ [Next]_vars => A
  <2> SUFFICES ASSUME TransferInv, [Next]_vars, NEW s \in Senders, rcv[s].pc = "receive",
                      wire'[s] # wire[s], Len(wire'[s]) < Len(wire[s])
               PROVE  /\ Head(wire[s]).file = rcv[s].file
                      /\ Head(wire[s]).at = Len(rcv[s].got)
    OBVIOUS
  <2>1. ReceiveChunk(s)
    BY OnlyChunksAreTaken
  <2>2. /\ StreamInv(manifest[s], snd[s], rcv[s], wire[s], back[s])
        /\ Len(rcv[s].got) < manifest[s][rcv[s].file].size /\ wire[s] # <<>>
    BY <2>1, ReceiverHas DEF ReceiveChunk, Info
  <2>3. wire[s][1].file = rcv[s].file /\ wire[s][1].at = Len(rcv[s].got)
    BY <2>2, ChunkIsTaken
  <2>4. Head(wire[s]) = wire[s][1]
    BY <2>2 DEF StreamInv, StreamTypes
  <2> QED BY <2>3, <2>4
<1> QED BY <1>1, InvariantHolds, PTL DEF Spec, BytesLandWhereRead
=============================================================================
