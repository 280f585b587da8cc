------------------------ MODULE TransferFolderProofs ------------------------
(***************************************************************************)
(* Proofs about the folder of Transfer while one receiver saves into it:   *)
(* what it saves is kept, whatever goes wrong, and stays whole but for one *)
(* moment; no file is replaced; and a sender that is told so has delivered *)
(* every file.                                                             *)
(***************************************************************************)
EXTENDS TransferProofs

\* What the theorems are about: one sender's receiver saves into the folder.  Two
\* share their leftovers, and spoil each other's files.
OneReceiver == \E s \in Senders : Senders = {s}

-----------------------------------------------------------------------------
(* The inductive invariant, said of names d and contents x, of the names g *)
(* given to files, and of a manifest m, a sender p, a receiver q and the   *)
(* answers b.                                                              *)

\* No two leftovers are the same file.
Apart(d) ==
    \A n, o \in DOMAIN d \ FileNames : d[n] = d[o] => n = o

\* A leftover that is a finished file as well has been given that file's name.
SharedIsPlaced(d, g) ==
    \A n \in DOMAIN d \ FileNames, o \in DOMAIN d \cap FileNames :
        d[n] = d[o] => <<o, n[2]>> \in g

Held(d, x, name) == IF name \in DOMAIN d THEN x[d[name]] ELSE <<>>

\* A file of the transfer that the receiver has something of and not opened yet.
Unopened(q, i) ==
    /\ i \in 1 .. Len(q.parts)
    /\ ~q.parts[i].complete
    /\ \/ q.pc = "resume"
       \/ q.pc = "open" /\ i >= q.file
       \/ q.pc \in Saving /\ i > q.file

SizeIsTrue(m, i) == m[i].size = Len(m[i].digest)

\* What the receiver believes of its leftovers is so.
LeftoversAreKnown(d, x, m, q) ==
    /\ \A i \in Files : Unopened(q, i) => Held(d, x, PartName(m, i)) = q.parts[i].got
    /\ q.pc = "receive" =>
          /\ PartName(m, q.file) \in DOMAIN d
          /\ d[PartName(m, q.file)] = q.fd
          /\ x[q.fd] = q.got
    /\ q.pc \in {"look", "place", "rename"} =>
          /\ PartName(m, q.file) \in DOMAIN d
          /\ x[d[PartName(m, q.file)]] = m[q.file].digest
          /\ SizeIsTrue(m, q.file)

RenameFits(q) == q.pc = "rename" => q.cand < MaxNameTries

\* The names that stay: a rename has seen that its own was free, and replaces what
\* has come up there since.
Settled(d, q) ==
    [n \in {o \in DOMAIN d : q.pc = "rename" => o # Numbered(q.file, q.cand)} |-> d[n]]

\* What was given a name begins with what its digest promised.
PlacedIsKept(d, x, g) ==
    \A n \in g :
        /\ n[1] \in DOMAIN d \cap FileNames
        /\ n[2] \in Chunks
        /\ IsPrefix(n[2], x[d[n[1]]])

\* A file the receiver is done with has the size it was said to have, and is in the
\* folder if the others have theirs.  If one of them has not, the attempt fails when
\* it comes to that one, and until then may write on a file that is saved.
IsSaved(d, x, m, i) ==
    /\ SizeIsTrue(m, i)
    /\ (\A j \in Files : SizeIsTrue(m, j)) =>
          \E k \in 0 .. MaxNameTries - 1 :
              Numbered(i, k) \in DOMAIN d /\ x[d[Numbered(i, k)]] = m[i].digest

AllSaved(d, x, m) == \A i \in Files : IsSaved(d, x, m, i)

\* The files the receiver found or is done with are saved.
DoneIsSaved(d, x, m, q) ==
    /\ q.pc \in {"resume"} \cup Saving =>
          \A i \in Files : i <= Len(q.parts) /\ q.parts[i].complete => IsSaved(d, x, m, i)
    /\ q.pc \in Saving => \A i \in Files : i < q.file => IsSaved(d, x, m, i)
    /\ q.pc \in {"unlink", "mark"} => \A i \in Files : i = q.file => IsSaved(d, x, m, i)
    /\ q.pc \in Finishing => AllSaved(d, x, m)

\* The answer that ends the transfer comes after the one that accepts the offer.
EndIsTrue(d, x, m, p, b) ==
    /\ p.pc = "delivered" => AllSaved(d, x, m)
    /\ p.pc \in {"offered", "sending", "flushed"} =>
          \A k \in 1 .. Len(b) :
              b[k].ok /\ (p.pc = "offered" => k > 1) => AllSaved(d, x, m)

KeepsFiles(d, x, g, m, p, q, b) ==
    /\ PlacedIsKept(d, x, g)
    /\ DoneIsSaved(d, x, m, q)
    /\ EndIsTrue(d, x, m, p, b)

SavingInv(d, x, g, m, p, q, b) ==
    /\ Apart(d)
    /\ SharedIsPlaced(d, g)
    /\ LeftoversAreKnown(d, x, m, q)
    /\ RenameFits(q)
    /\ KeepsFiles(Settled(d, q), x, g, m, p, q, b)

FolderInv ==
    /\ TransferInv
    /\ \A s \in Senders :
          SavingInv(dir, data, placed, manifest[s], snd[s], rcv[s], back[s])

-----------------------------------------------------------------------------
(* Names and contents.                                                     *)

\* The leftovers of a transfer have names of their own.
LEMMA PartsHaveNames ==
    ASSUME NEW m, NEW i \in Files
    PROVE  /\ PartName(m, i) \notin FileNames /\ PartName(m, i)[2] = m[i].digest
           /\ \A j \in Files : PartName(m, i) = PartName(m, j) => i = j
<1> DEFINE T(j) == {k \in 1 .. j - 1 : m[k].digest = m[j].digest}
<1>1. PartName(m, i) \notin FileNames
  BY DEF PartName, FileNames, Numbered
<1>2. ASSUME NEW j \in Files, NEW k \in Files, j < k, PartName(m, j) = PartName(m, k)
      PROVE  FALSE
  <2>1. m[j].digest = m[k].digest /\ Cardinality(T(j)) = Cardinality(T(k))
    BY <1>2 DEF PartName
  <2>2. T(j) \subseteq T(k) /\ j \in T(k) /\ j \notin T(j)
    BY <1>2, <2>1 DEF Files
  <2>3. k - 1 \in Int /\ IsFiniteSet(1 .. k - 1)
    BY FS_Interval DEF Files
  <2>4. IsFiniteSet(T(k))
    <3>1. T(k) \subseteq 1 .. k - 1
      OBVIOUS
    <3> QED BY <2>3, <3>1, FS_Subset
  <2> HIDE DEF T
  <2> QED BY <2>1, <2>2, <2>4, FS_Subset
<1>3. PartName(m, i)[2] = m[i].digest
  BY DEF PartName
<1> QED BY <1>1, <1>2, <1>3 DEF Files

\* The names a file may be given are names of files.
LEMMA NumbersAreFiles ==
    ASSUME NEW i \in Files, NEW k \in 0 .. MaxNameTries - 1
    PROVE  Numbered(i, k) \in FileNames
BY DEF FileNames

\* A truncation to the length a content has, and a chunk written at its end.
LEMMA EndsMeet ==
    ASSUME NEW c \in Chunks
    PROVE  /\ Truncated(c, Len(c)) = c
           /\ \A x \in Nat : Written(c, Len(c), x) = Append(c, x)
<1>1. c \in Seq(Nat) /\ Len(c) \in Nat /\ DOMAIN c = 1 .. Len(c)
  BY DEF Chunks
<1>2. Truncated(c, Len(c)) = c
  BY <1>1 DEF Truncated
<1>3. ASSUME NEW x \in Nat PROVE Written(c, Len(c), x) = Append(c, x)
  <2>1. Written(c, Len(c), x) = [k \in 1 .. Len(c) + 1 |->
          IF k = Len(c) + 1 THEN x ELSE IF k <= Len(c) THEN c[k] ELSE 0]
    BY <1>1 DEF Written
  <2>2. \A k \in 1 .. Len(c) + 1 :
          Append(c, x)[k] = IF k = Len(c) + 1 THEN x ELSE IF k <= Len(c) THEN c[k] ELSE 0
    BY <1>1
  <2>3. Append(c, x) \in Seq(Nat) /\ Len(Append(c, x)) = Len(c) + 1
    BY <1>1
  <2> DEFINE z == Append(c, x)
             l == Len(c) + 1
  <2>4. z \in Seq(Nat) /\ Len(z) = l
    BY <2>3
  <2> HIDE DEF z, l
  <2>5. z = [k \in 1 .. l |-> z[k]]
    BY <2>4
  <2> QED BY <2>1, <2>2, <2>5 DEF z, l
<1> QED BY <1>2, <1>3

\* A content begins with itself, and what it begins with it begins with when it
\* gets longer.
LEMMA Beginnings ==
    ASSUME NEW c \in Chunks, NEW z \in Chunks, NEW k \in Nat
    PROVE  /\ IsPrefix(c, c) /\ IsPrefix(z, Append(z, k))
           /\ IsPrefix(c, z) => IsPrefix(c, Append(z, k)) /\ Len(c) <= Len(z)
<1>1. c \in Seq(Nat) /\ Len(c) \in Nat
  BY DEF Chunks
<1>2. ASSUME NEW v \in Seq(Nat), NEW w \in Seq(Nat), IsPrefix(v, w)
      PROVE  IsPrefix(v, Append(w, k)) /\ Len(v) <= Len(w)
  <2>1. /\ Len(v) \in Nat /\ Len(w) \in Nat /\ Len(v) <= Len(w)
        /\ SubSeq(v, 1, Len(v)) = SubSeq(w, 1, Len(v))
    BY <1>2 DEF IsPrefix
  <2>2. Len(Append(w, k)) = Len(w) + 1 /\ \A i \in 1 .. Len(w) : Append(w, k)[i] = w[i]
    OBVIOUS
  <2> DEFINE l == Len(v)
             u == Append(w, k)
  <2>3. l \in Nat /\ l <= Len(w) /\ u \in Seq(Nat) /\ Len(u) = Len(w) + 1
        /\ \A i \in 1 .. Len(w) : u[i] = w[i]
    BY <2>1, <2>2
  <2> HIDE DEF l, u
  <2>4. SubSeq(w, 1, l) = [i \in 1 .. l |-> w[i]] /\ SubSeq(u, 1, l) = [i \in 1 .. l |-> u[i]]
    BY <2>1, <2>3
  <2>5. SubSeq(u, 1, l) = SubSeq(w, 1, l)
    BY <2>1, <2>3, <2>4
  <2> QED BY <2>1, <2>3, <2>5 DEF l, u, IsPrefix
<1>3. \A v \in Seq(Nat) : IsPrefix(v, v)
  BY DEF IsPrefix
<1> QED BY <1>1, <1>2, <1>3 DEF Chunks

\* What a name in the folder stands for stays as it is.
Grows(d, x, e, y) ==
    \A n \in FileNames \cap DOMAIN d : n \in DOMAIN e /\ y[e[n]] = x[d[n]]

\* Some leftovers are removed at most.
Loses(d, x, e, y) ==
    /\ DOMAIN e \subseteq DOMAIN d
    /\ FileNames \cap DOMAIN d \subseteq DOMAIN e
    /\ \A n \in DOMAIN e : e[n] = d[n] /\ y[e[n]] = x[d[n]]

\* A folder that has lost leftovers at most has kept the rest.
LEMMA LosersKeep ==
    ASSUME NEW d, NEW x, NEW e, NEW y, Loses(d, x, e, y)
    PROVE  /\ Grows(d, x, e, y)
           /\ Apart(d) => Apart(e)
           /\ \A g : SharedIsPlaced(d, g) => SharedIsPlaced(e, g)
           /\ \A name \in DOMAIN e : Held(e, y, name) = Held(d, x, name)
<1>1. Grows(d, x, e, y)
  BY DEF Loses, Grows
<1>2. Apart(d) => Apart(e)
  BY DEF Loses, Apart
<1>3. \A g : SharedIsPlaced(d, g) => SharedIsPlaced(e, g)
  BY DEF Loses, SharedIsPlaced
<1>4. \A name \in DOMAIN e : Held(e, y, name) = Held(d, x, name)
  BY DEF Loses, Held
<1> QED BY <1>1, <1>2, <1>3, <1>4

\* What is saved stays saved.
LEMMA SavedStays ==
    ASSUME NEW d, NEW x, NEW e, NEW y, Grows(d, x, e, y)
    PROVE  /\ \A m : \A i \in Files : IsSaved(d, x, m, i) => IsSaved(e, y, m, i)
           /\ \A g, m, p, q, b :
                 KeepsFiles(d, x, g, m, p, q, b) => KeepsFiles(e, y, g, m, p, q, b)
<1>1. ASSUME NEW m, NEW i \in Files, IsSaved(d, x, m, i) PROVE IsSaved(e, y, m, i)
  BY <1>1, NumbersAreFiles DEF IsSaved, Grows
<1>2. \A m : AllSaved(d, x, m) => AllSaved(e, y, m)
  BY <1>1 DEF AllSaved
<1>3. \A g : PlacedIsKept(d, x, g) => PlacedIsKept(e, y, g)
  BY DEF PlacedIsKept, Grows
<1>4. \A m, q : DoneIsSaved(d, x, m, q) => DoneIsSaved(e, y, m, q)
  BY <1>1, <1>2 DEF DoneIsSaved
<1>5. \A m, p, b : EndIsTrue(d, x, m, p, b) => EndIsTrue(e, y, m, p, b)
  BY <1>2 DEF EndIsTrue
<1> QED BY <1>1, <1>3, <1>4, <1>5 DEF KeepsFiles

\* The names that stay are all of them while no rename is under way.
LEMMA SettledKeeps ==
    ASSUME NEW d, NEW x, NEW q
    PROVE  /\ \A g, m, p, b : SavingInv(d, x, g, m, p, q, b) => KeepsFiles(d, x, g, m, p, q, b)
           /\ q.pc # "rename" =>
                 \A g, m, p, b :
                    /\ Apart(d) /\ SharedIsPlaced(d, g) /\ LeftoversAreKnown(d, x, m, q)
                    /\ KeepsFiles(d, x, g, m, p, q, b)
                    => SavingInv(d, x, g, m, p, q, b)
<1>1. Grows(Settled(d, q), x, d, x)
  BY DEF Grows, Settled
<1>2. q.pc # "rename" => Grows(d, x, Settled(d, q), x)
  BY DEF Grows, Settled
<1>3. \A g, m, p, b : SavingInv(d, x, g, m, p, q, b) => KeepsFiles(d, x, g, m, p, q, b)
  BY <1>1, SavedStays DEF SavingInv
<1>4. q.pc # "rename" =>
        \A g, m, p, b : KeepsFiles(d, x, g, m, p, q, b) =>
                            KeepsFiles(Settled(d, q), x, g, m, p, q, b)
  BY <1>2, SavedStays
<1> QED BY <1>3, <1>4 DEF SavingInv, RenameFits

\* The receiver writes on the file of name n, which was saved.
WritesOnSaved(d, g, m, q, n) ==
    /\ q.pc = "receive" /\ q.fd = d[n]
    /\ <<n, m[q.file].digest>> \in g
    /\ m[q.file].size > Len(m[q.file].digest)

\* What a name stands for stays, but for the two moments of NothingIsReplaced.
Goes(d, x, g, m, q, e, y) ==
    \A n \in FileNames \cap DOMAIN d :
        \/ n \in DOMAIN e /\ y[e[n]] = x[d[n]]
        \/ /\ WritesOnSaved(d, g, m, q, n)
           /\ n \in DOMAIN e /\ IsPrefix(x[d[n]], y[e[n]])
        \/ /\ q.pc = "rename" /\ n = Numbered(q.file, q.cand)
           /\ \A a \in g : n # a[1]

\* An answer that is no success ends nothing.
LEMMA RefusalEndsNothing ==
    ASSUME NEW d, NEW x, NEW m, NEW p, NEW b \in Seq(Answer),
           EndIsTrue(d, x, m, p, b), NEW said \in {<<>>, <<Refusal>>}
    PROVE  EndIsTrue(d, x, m, p, b \o said)
<1> DEFINE c == b \o said
<1>1. Refusal \in Answer /\ ~Refusal.ok
  BY DEF Refusal, Answer
<1> HIDE DEF Refusal
<1>2. \A k \in 1 .. Len(c) :
        (k \in 1 .. Len(b) /\ c[k] = b[k]) \/ c[k] = Refusal
  BY <1>1
<1> HIDE DEF c
<1>3. EndIsTrue(d, x, m, p, c)
  BY <1>1, <1>2 DEF EndIsTrue
<1> QED BY <1>3 DEF c

-----------------------------------------------------------------------------
(* Steps of a receiver, said of the values of its transfer.                *)

\* The receiver stops, or has not begun to save: it knows of no leftovers.
LEMMA ReceiverLeaves ==
    ASSUME NEW d, NEW x, NEW g, NEW m, NEW p, NEW q, NEW b,
           SavingInv(d, x, g, m, p, q, b),
           NEW e, NEW y, Loses(d, x, e, y),
           NEW r, r.pc \in {"failed", "offer", "sweep", "resume"}, r.parts = <<>>,
           NEW c, EndIsTrue(e, y, m, p, c)
    PROVE  SavingInv(e, y, g, m, p, r, c)
<1>1. Apart(e) /\ SharedIsPlaced(e, g)
  BY LosersKeep DEF SavingInv
<1>2. LeftoversAreKnown(e, y, m, r)
  BY DEF LeftoversAreKnown, Unopened
<1>3. DoneIsSaved(e, y, m, r)
  BY DEF DoneIsSaved, Saving, Finishing, Files
<1>4. KeepsFiles(e, y, g, m, p, q, b)
  BY LosersKeep, SavedStays, SettledKeeps
<1>5. KeepsFiles(e, y, g, m, p, r, c)
  BY <1>3, <1>4 DEF KeepsFiles
<1> QED BY <1>1, <1>2, <1>5, SettledKeeps

\* A transfer that has not got to its files does not depend on the manifest.
LEMMA ManifestIsNew ==
    ASSUME NEW d, NEW x, NEW g, NEW m, NEW p, NEW q, NEW b,
           SavingInv(d, x, g, m, p, q, b),
           q.pc \in {"failed", "offer"},
           NEW m2, NEW p2, p2.pc \in {"waiting", "checking", "offered"},
           NEW q2, q2.pc \in {"failed", "offer"}
    PROVE  SavingInv(d, x, g, m2, p2, q2, <<>>)
<1>1. LeftoversAreKnown(d, x, m2, q2)
  BY DEF LeftoversAreKnown, Unopened, Saving
<1>2. DoneIsSaved(d, x, m2, q2) /\ EndIsTrue(d, x, m2, p2, <<>>)
  BY DEF DoneIsSaved, EndIsTrue, Saving, Finishing
<1>3. PlacedIsKept(d, x, g)
  BY SettledKeeps DEF KeepsFiles
<1>4. KeepsFiles(d, x, g, m2, p2, q2, <<>>)
  BY <1>2, <1>3 DEF KeepsFiles
<1> QED BY <1>1, <1>4, SettledKeeps DEF SavingInv

\* resumeFrom has looked at one more file.
LEMMA LeftoverIsFound ==
    ASSUME NEW d, NEW x, NEW g, NEW m, NEW p, NEW q, NEW w, NEW b,
           SavingInv(d, x, g, m, p, q, b), StreamInv(m, p, q, w, b),
           q.pc = "resume", q.file \in Files,
           NEW e, Loses(d, x, e, x), DOMAIN d \ {PartName(m, q.file)} \subseteq DOMAIN e,
           NEW part \in Part,
           part.complete => IsSaved(d, x, m, q.file),
           ~part.complete => Held(e, x, PartName(m, q.file)) = part.got,
           NEW r, r.pc = "resume", r.file = q.file + 1, r.parts = Append(q.parts, part)
    PROVE  SavingInv(e, x, g, m, p, r, b)
<1>1. q.parts \in Seq(Part) /\ Len(q.parts) = q.file - 1 /\ q.file \in Nat
  BY DEF StreamInv, StreamTypes, ReceiverFits, Receiverly, Files
<1>2. /\ Len(r.parts) = q.file /\ r.parts[q.file] = part
      /\ \A i \in 1 .. Len(q.parts) : r.parts[i] = q.parts[i]
  BY <1>1
<1>3. Apart(e) /\ SharedIsPlaced(e, g) /\ Grows(d, x, e, x)
  BY LosersKeep DEF SavingInv
<1>4. KeepsFiles(d, x, g, m, p, q, b) /\ KeepsFiles(e, x, g, m, p, q, b)
  BY <1>3, SavedStays, SettledKeeps
<1>5. LeftoversAreKnown(e, x, m, r)
  <2>1. ASSUME NEW i \in Files, Unopened(r, i)
        PROVE  Held(e, x, PartName(m, i)) = r.parts[i].got
    <3>1. CASE i = q.file
      BY <1>2, <2>1, <3>1 DEF Unopened
    <3>2. CASE i # q.file
      <4>1. i \in 1 .. Len(q.parts) /\ r.parts[i] = q.parts[i]
        BY <1>1, <1>2, <2>1, <3>2 DEF Unopened
      <4>2. Held(d, x, PartName(m, i)) = q.parts[i].got
        BY <2>1, <4>1 DEF Unopened, SavingInv, LeftoversAreKnown
      <4>3. PartName(m, i) # PartName(m, q.file)
        BY <3>2, PartsHaveNames
      <4>4. Held(e, x, PartName(m, i)) = Held(d, x, PartName(m, i))
        BY <4>3 DEF Held, Loses
      <4> QED BY <4>1, <4>2, <4>4
    <3> QED BY <3>1, <3>2
  <2> QED BY <2>1 DEF LeftoversAreKnown
<1>6. DoneIsSaved(e, x, m, r)
  <2>1. ASSUME NEW i \in Files, i <= Len(r.parts), r.parts[i].complete
        PROVE  IsSaved(e, x, m, i)
    <3>1. IsSaved(d, x, m, i)
      <4>1. CASE i = q.file
        BY <1>2, <2>1, <4>1
      <4>2. CASE i # q.file
        BY <1>1, <1>2, <1>4, <2>1, <4>2 DEF KeepsFiles, DoneIsSaved, Files
      <4> QED BY <4>1, <4>2
    <3> QED BY <1>3, <3>1, SavedStays
  <2> QED BY <2>1 DEF DoneIsSaved, Saving, Finishing
<1>7. KeepsFiles(e, x, g, m, p, r, b)
  BY <1>4, <1>6 DEF KeepsFiles
<1> QED BY <1>3, <1>5, <1>7, SettledKeeps

\* The receiver opens its first file, or the next one.
LEMMA FileIsNext ==
    ASSUME NEW d, NEW x, NEW g, NEW m, NEW p, NEW q, NEW w, NEW b,
           SavingInv(d, x, g, m, p, q, b), StreamInv(m, p, q, w, b),
           NEW r, r.pc = "open", r.parts = q.parts, NEW c,
           EndIsTrue(d, x, m, p, c),
           \/ q.pc = "resume" /\ r.file = 1
           \/ /\ q.pc \in {"open", "mark"} /\ q.file \in Files /\ r.file = q.file + 1
              /\ IsSaved(d, x, m, q.file)
    PROVE  SavingInv(d, x, g, m, p, r, c)
<1>1. KeepsFiles(d, x, g, m, p, q, b)
  BY SettledKeeps
<1>2. \A i \in Files : Unopened(r, i) => Unopened(q, i)
  BY DEF Unopened, Saving, Files
<1>3. LeftoversAreKnown(d, x, m, r)
  BY <1>2 DEF SavingInv, LeftoversAreKnown
<1>4. DoneIsSaved(d, x, m, r)
  <2>1. ASSUME NEW i \in Files, i < r.file PROVE IsSaved(d, x, m, i)
    <3>1. CASE q.pc = "resume"
      BY <2>1, <3>1 DEF Files
    <3>2. CASE q.pc # "resume"
      <4>1. i < q.file \/ i = q.file
        BY <2>1, <3>2 DEF Files
      <4> QED BY <1>1, <3>2, <4>1 DEF KeepsFiles, DoneIsSaved, Saving
    <3> QED BY <3>1, <3>2
  <2>2. \A i \in Files : i <= Len(r.parts) /\ r.parts[i].complete => IsSaved(d, x, m, i)
    BY <1>1 DEF KeepsFiles, DoneIsSaved, Saving
  <2> QED BY <2>1, <2>2 DEF DoneIsSaved, Finishing
<1>5. KeepsFiles(d, x, g, m, p, r, c)
  BY <1>1, <1>4 DEF KeepsFiles
<1> QED BY <1>3, <1>5, SettledKeeps DEF SavingInv

\* The receiver has its leftover checked and looks for a place for it.
LEMMA PlaceIsSought ==
    ASSUME NEW d, NEW x, NEW g, NEW m, NEW p, NEW q, NEW b,
           SavingInv(d, x, g, m, p, q, b),
           q.pc \in {"receive", "look", "place"},
           PartName(m, q.file) \in DOMAIN d,
           x[d[PartName(m, q.file)]] = m[q.file].digest, SizeIsTrue(m, q.file),
           NEW r, r.pc \in {"look", "place", "rename"}, r.file = q.file,
           r.parts = q.parts,
           r.pc = "rename" =>
               r.cand < MaxNameTries /\ Numbered(r.file, r.cand) \notin DOMAIN d
    PROVE  SavingInv(d, x, g, m, p, r, b)
<1>1. KeepsFiles(d, x, g, m, p, q, b)
  BY SettledKeeps
<1>2. \A i \in Files : Unopened(r, i) => Unopened(q, i)
  BY DEF Unopened, Saving
<1>3. LeftoversAreKnown(d, x, m, r)
  BY <1>2 DEF SavingInv, LeftoversAreKnown
<1>4. DoneIsSaved(d, x, m, r)
  BY <1>1 DEF KeepsFiles, DoneIsSaved, Saving, Finishing
<1>5. KeepsFiles(d, x, g, m, p, r, b)
  BY <1>1, <1>4 DEF KeepsFiles
<1>6. Grows(d, x, Settled(d, r), x)
  BY DEF Grows, Settled
<1>7. KeepsFiles(Settled(d, r), x, g, m, p, r, b)
  BY <1>5, <1>6, SavedStays
<1> QED BY <1>3, <1>7 DEF SavingInv, RenameFits

\* The leftover of a file that is saved is removed.
LEMMA LeftoverIsDropped ==
    ASSUME NEW d, NEW x, NEW g, NEW m, NEW p, NEW q, NEW w, NEW b,
           SavingInv(d, x, g, m, p, q, b), StreamInv(m, p, q, w, b),
           q.pc \in {"look", "unlink"}, q.file \in Files,
           IsSaved(d, x, m, q.file),
           NEW e, e = Unbind(d, PartName(m, q.file)),
           NEW r, r.pc = "mark", r.file = q.file, r.parts = q.parts
    PROVE  SavingInv(e, x, g, m, p, r, b) /\ Grows(d, x, e, x)
<1>1. Loses(d, x, e, x)
  BY PartsHaveNames DEF Loses, Unbind
<1>2. Apart(e) /\ SharedIsPlaced(e, g) /\ Grows(d, x, e, x)
  BY <1>1, LosersKeep DEF SavingInv
<1>3. KeepsFiles(e, x, g, m, p, q, b) /\ IsSaved(e, x, m, q.file)
  BY <1>2, SavedStays, SettledKeeps
<1>4. LeftoversAreKnown(e, x, m, r)
  <2>1. ASSUME NEW i \in Files, Unopened(r, i)
        PROVE  Held(e, x, PartName(m, i)) = r.parts[i].got
    <3>1. Unopened(q, i) /\ i # q.file
      BY <2>1 DEF Unopened, Saving, Files
    <3>2. PartName(m, i) # PartName(m, q.file)
      BY <3>1, PartsHaveNames
    <3>3. Held(e, x, PartName(m, i)) = Held(d, x, PartName(m, i))
      BY <3>2 DEF Held, Unbind
    <3> QED BY <3>1, <3>3 DEF SavingInv, LeftoversAreKnown
  <2> QED BY <2>1 DEF LeftoversAreKnown
<1>5. DoneIsSaved(e, x, m, r)
  BY <1>3 DEF KeepsFiles, DoneIsSaved, Saving, Finishing
<1>6. KeepsFiles(e, x, g, m, p, r, b)
  BY <1>3, <1>5 DEF KeepsFiles
<1> QED BY <1>2, <1>4, <1>6, SettledKeeps

\* receiveFile opens the leftover, or a new file, and finds what it expects.
LEMMA LeftoverIsOpened ==
    ASSUME NEW d, NEW x, NEW g, NEW m, NEW p, NEW q, NEW w, NEW b,
           SavingInv(d, x, g, m, p, q, b), StreamInv(m, p, q, w, b), FolderFits(d, x),
           q.pc = "open", q.file \in Files, ~q.parts[q.file].complete,
           NEW inode, PartName(m, q.file) \in DOMAIN d => inode = d[PartName(m, q.file)],
           PartName(m, q.file) \notin DOMAIN d => inode \notin DOMAIN x,
           NEW e, e = Bind(d, PartName(m, q.file), inode),
           NEW y, y = [n \in DOMAIN x \cup {inode} |->
                         IF n = inode
                         THEN Truncated(Held(d, x, PartName(m, q.file)),
                                        q.parts[q.file].offset)
                         ELSE x[n]],
           NEW r, r.pc = "receive", r.file = q.file, r.parts = q.parts,
           r.fd = inode, r.got = q.parts[q.file].got
    PROVE  SavingInv(e, y, g, m, p, r, b) /\ Grows(d, x, e, y)
<1> DEFINE name == PartName(m, q.file)
           part == q.parts[q.file]
<1>1. part \in Part /\ Len(part.got) = part.offset /\ q.file \in 1 .. Len(q.parts)
  <2>1. Len(q.parts) = NumFiles /\ q.parts \in Seq(Part)
    BY DEF StreamInv, StreamTypes, ReceiverFits, Receiverly, Saving
  <2>2. q.file \in 1 .. Len(q.parts)
    BY <2>1 DEF Files
  <2>3. part \in Part
    BY <2>1, <2>2
  <2>4. PartFits(part, m[q.file].size)
    BY <2>2 DEF StreamInv, ReceiverFits, Saving
  <2> QED BY <2>2, <2>3, <2>4 DEF PartFits
<1>2. Held(d, x, name) = part.got
  BY <1>1 DEF SavingInv, LeftoversAreKnown, Unopened
<1>3. Truncated(Held(d, x, name), part.offset) = part.got
  BY <1>1, <1>2, EndsMeet DEF Part
<1>4. /\ y = [n \in DOMAIN x \cup {inode} |-> IF n = inode THEN part.got ELSE x[n]]
      /\ name \notin FileNames
  BY <1>3, PartsHaveNames
<1>5. /\ e[name] = inode /\ DOMAIN e = DOMAIN d \cup {name} /\ y[inode] = part.got
      /\ \A n \in DOMAIN d \ {name} : e[n] = d[n]
  BY <1>4 DEF Bind
<1>6. \A n \in DOMAIN d : e[n] = d[n] /\ y[d[n]] = x[d[n]] /\ d[n] \in DOMAIN x
  <2> TAKE n \in DOMAIN d
  <2>1. d[n] \in DOMAIN x
    BY DEF FolderFits
  <2>2. CASE name \in DOMAIN d
    BY <1>2, <1>4, <1>5, <2>1, <2>2 DEF Held
  <2>3. CASE name \notin DOMAIN d
    BY <1>4, <1>5, <2>1, <2>3
  <2> QED BY <2>2, <2>3
<1>7. Grows(d, x, e, y)
  BY <1>5, <1>6 DEF Grows
<1>8. name \notin DOMAIN d => \A n \in DOMAIN d : d[n] # inode
  BY <1>6
<1>9. Apart(e)
  BY <1>5, <1>6, <1>8 DEF SavingInv, Apart
<1>10. SharedIsPlaced(e, g)
  <2> SUFFICES ASSUME NEW n \in DOMAIN e \ FileNames, NEW o \in DOMAIN e \cap FileNames,
                      e[n] = e[o]
               PROVE  <<o, n[2]>> \in g
    BY DEF SharedIsPlaced
  <2>1. o \in DOMAIN d /\ e[o] = d[o]
    BY <1>4, <1>5
  <2>2. n \in DOMAIN d
    BY <1>5, <1>8, <2>1
  <2> QED BY <1>6, <2>1, <2>2 DEF SavingInv, SharedIsPlaced
<1>11. LeftoversAreKnown(e, y, m, r)
  <2>1. ASSUME NEW i \in Files, Unopened(r, i)
        PROVE  Held(e, y, PartName(m, i)) = r.parts[i].got
    <3>1. Unopened(q, i) /\ i # q.file
      BY <2>1 DEF Unopened, Saving, Files
    <3>2. PartName(m, i) # name
      BY <3>1, PartsHaveNames
    <3>3. Held(e, y, PartName(m, i)) = Held(d, x, PartName(m, i))
      BY <1>5, <1>6, <3>2 DEF Held
    <3> QED BY <3>1, <3>3 DEF SavingInv, LeftoversAreKnown
  <2> QED BY <1>5, <2>1 DEF LeftoversAreKnown
<1>12. KeepsFiles(e, y, g, m, p, q, b)
  BY <1>7, SavedStays, SettledKeeps
<1>13. DoneIsSaved(e, y, m, r)
  BY <1>12 DEF KeepsFiles, DoneIsSaved, Saving, Finishing
<1>14. KeepsFiles(e, y, g, m, p, r, b)
  BY <1>12, <1>13 DEF KeepsFiles
<1> QED BY <1>7, <1>9, <1>10, <1>11, <1>14, SettledKeeps

\* A chunk goes to the end of the leftover.  If that is a finished file too, this
\* attempt cannot come to its end.
LEMMA ChunkIsWritten ==
    ASSUME NEW d, NEW x, NEW g, NEW m, NEW p, NEW q, NEW w, NEW b,
           SavingInv(d, x, g, m, p, q, b), StreamInv(m, p, q, w, b), FolderFits(d, x),
           q.pc = "receive", Len(q.got) < m[q.file].size, m[q.file] \in Entry,
           NEW chunk \in Nat,
           NEW y, y = [x EXCEPT ![q.fd] = Written(@, Len(q.got), chunk)],
           NEW r, r.pc = "receive", r.file = q.file, r.parts = q.parts,
           r.fd = q.fd, r.got = Append(q.got, chunk)
    PROVE  SavingInv(d, y, g, m, p, r, b) /\ Goes(d, x, g, m, q, d, y)
<1> DEFINE name == PartName(m, q.file)
<1>1. q.file \in Files /\ q.got \in Chunks
  BY DEF StreamInv, StreamTypes, ReceiverFits, Receiverly, Saving
<1>2. name \in DOMAIN d /\ d[name] = q.fd /\ x[q.fd] = q.got /\ q.fd \in DOMAIN x
  BY DEF SavingInv, LeftoversAreKnown, FolderFits
<1>3. name \notin FileNames /\ name[2] = m[q.file].digest
  BY <1>1, PartsHaveNames
<1>4. y[q.fd] = r.got /\ \A n \in DOMAIN x \ {q.fd} : y[n] = x[n]
  BY <1>1, <1>2, EndsMeet
<1>5. KeepsFiles(d, x, g, m, p, q, b)
  BY SettledKeeps
<1>6. \A n \in DOMAIN d : d[n] \in DOMAIN x /\ (d[n] # q.fd => y[d[n]] = x[d[n]])
  BY <1>4 DEF FolderFits
<1>7. \A n \in DOMAIN d \ FileNames : n # name => d[n] # q.fd
  BY <1>2, <1>3 DEF SavingInv, Apart
<1>8. ASSUME NEW o \in DOMAIN d \cap FileNames, d[o] = q.fd
      PROVE  /\ <<o, m[q.file].digest>> \in g
             /\ m[q.file].size > Len(m[q.file].digest)
  <2>1. <<o, m[q.file].digest>> \in g
    BY <1>2, <1>3, <1>8 DEF SavingInv, SharedIsPlaced
  <2>2. IsPrefix(m[q.file].digest, q.got)
    BY <1>2, <1>5, <1>8, <2>1 DEF KeepsFiles, PlacedIsKept
  <2>3. /\ m[q.file].digest \in Chunks /\ m[q.file].size \in Nat
        /\ Len(m[q.file].digest) \in Nat /\ Len(q.got) \in Nat
    BY <1>1 DEF Entry, Chunks
  <2>4. Len(m[q.file].digest) <= Len(q.got)
    BY <1>1, <2>2, <2>3, Beginnings
  <2> QED BY <2>1, <2>3, <2>4
<1>9. IsPrefix(q.got, r.got)
  BY <1>1, Beginnings
<1>10. Goes(d, x, g, m, q, d, y)
  <2> SUFFICES ASSUME NEW n \in FileNames \cap DOMAIN d, y[d[n]] # x[d[n]]
               PROVE  WritesOnSaved(d, g, m, q, n) /\ IsPrefix(x[d[n]], y[d[n]])
    BY DEF Goes
  <2>1. d[n] = q.fd
    BY <1>6
  <2> QED BY <1>2, <1>4, <1>8, <1>9, <2>1 DEF WritesOnSaved
<1>11. PlacedIsKept(d, y, g)
  <2> SUFFICES ASSUME NEW n \in g
               PROVE  /\ n[1] \in DOMAIN d \cap FileNames /\ n[2] \in Chunks
                      /\ IsPrefix(n[2], y[d[n[1]]])
    BY DEF PlacedIsKept
  <2>1. /\ n[1] \in DOMAIN d \cap FileNames /\ n[2] \in Chunks
        /\ IsPrefix(n[2], x[d[n[1]]])
    BY <1>5 DEF KeepsFiles, PlacedIsKept
  <2>2. CASE d[n[1]] # q.fd
    BY <1>6, <2>1, <2>2
  <2>3. CASE d[n[1]] = q.fd
    <3>1. IsPrefix(n[2], q.got)
      BY <1>2, <2>1, <2>3
    <3>2. IsPrefix(n[2], r.got)
      BY <1>1, <2>1, <3>1, Beginnings
    <3> QED BY <1>4, <2>1, <2>3, <3>2
  <2> QED BY <2>2, <2>3
<1>12. ASSUME NEW i \in Files, IsSaved(d, x, m, i) PROVE IsSaved(d, y, m, i)
  <2>1. CASE \A o \in DOMAIN d \cap FileNames : d[o] # q.fd
    <3>1. Grows(d, x, d, y)
      BY <1>6, <2>1 DEF Grows
    <3> QED BY <1>12, <3>1, SavedStays
  <2>2. CASE \E o \in DOMAIN d \cap FileNames : d[o] = q.fd
    <3>1. m[q.file].size > Len(m[q.file].digest)
      BY <1>8, <2>2
    <3>2. m[q.file].size \in Nat /\ Len(m[q.file].digest) \in Nat
      BY DEF Entry, Chunks
    <3>3. ~SizeIsTrue(m, q.file)
      BY <3>1, <3>2 DEF SizeIsTrue
    <3> QED BY <1>1, <1>12, <3>3 DEF IsSaved
  <2> QED BY <2>1, <2>2
<1>13. AllSaved(d, x, m) => AllSaved(d, y, m)
  BY <1>12 DEF AllSaved
<1>14. DoneIsSaved(d, y, m, r) /\ EndIsTrue(d, y, m, p, b)
  BY <1>5, <1>12, <1>13 DEF KeepsFiles, DoneIsSaved, EndIsTrue, Saving, Finishing
<1>15. KeepsFiles(d, y, g, m, p, r, b)
  BY <1>11, <1>14 DEF KeepsFiles
<1>16. LeftoversAreKnown(d, y, m, r)
  <2>1. ASSUME NEW i \in Files, Unopened(r, i)
        PROVE  Held(d, y, PartName(m, i)) = r.parts[i].got
    <3>1. Unopened(q, i) /\ i # q.file
      BY <1>1, <2>1 DEF Unopened, Saving, Files
    <3>2. PartName(m, i) # name /\ PartName(m, i) \notin FileNames
      BY <1>1, <3>1, PartsHaveNames
    <3>3. Held(d, y, PartName(m, i)) = Held(d, x, PartName(m, i))
      BY <1>6, <1>7, <3>2 DEF Held
    <3> QED BY <3>1, <3>3 DEF SavingInv, LeftoversAreKnown
  <2> QED BY <1>2, <1>4, <2>1 DEF LeftoversAreKnown
<1> QED BY <1>10, <1>15, <1>16, SettledKeeps DEF SavingInv

\* What was given a name in a step has all that its digest promised.
NewIsWhole(d, x, g, h) ==
    \A n \in h \ g : n[1] \in DOMAIN d /\ x[d[n[1]]] = n[2]

\* place: the leftover gets a name, and keeps its own (a link) or not (a rename).  A
\* link finds the name free; a rename may find that something has come up there.
LEMMA FileGetsName ==
    ASSUME NEW d, NEW x, NEW g, NEW m, NEW p, NEW q, NEW w, NEW b,
           SavingInv(d, x, g, m, p, q, b), StreamInv(m, p, q, w, b), FolderFits(d, x),
           q.pc \in {"place", "rename"}, q.cand < MaxNameTries,
           q.pc = "place" => Numbered(q.file, q.cand) \notin DOMAIN d,
           m[q.file] \in Entry,
           NEW e, NEW r, r.file = q.file, r.parts = q.parts,
           \/ /\ r.pc = "unlink"
              /\ e = Bind(d, Numbered(q.file, q.cand), d[PartName(m, q.file)])
           \/ /\ r.pc = "mark"
              /\ e = Unbind(Bind(d, Numbered(q.file, q.cand), d[PartName(m, q.file)]),
                            PartName(m, q.file)),
           NEW h, h = g \cup {<<Numbered(q.file, q.cand), m[q.file].digest>>}
    PROVE  /\ SavingInv(e, x, h, m, p, r, b) /\ Goes(d, x, g, m, q, e, x)
           /\ NewIsWhole(e, x, g, h)
<1> DEFINE name == PartName(m, q.file)
           cand == Numbered(q.file, q.cand)
<1>1. q.file \in Files /\ q.cand \in 0 .. MaxNameTries - 1
  BY TransferAssumption DEF StreamInv, StreamTypes, ReceiverFits, Receiverly, Saving
<1>2. /\ name \notin FileNames /\ cand \in FileNames
      /\ name[2] = m[q.file].digest
  BY <1>1, PartsHaveNames, NumbersAreFiles
<1>3. name \in DOMAIN d /\ x[d[name]] = m[q.file].digest /\ SizeIsTrue(m, q.file)
  BY DEF SavingInv, LeftoversAreKnown
<1>4. cand \in DOMAIN e /\ e[cand] = d[name]
  BY <1>2 DEF Bind, Unbind
<1>5. \A n \in DOMAIN e \ {cand} : n \in DOMAIN d /\ e[n] = d[n]
  BY DEF Bind, Unbind
<1>6. \A n \in DOMAIN d \ {name, cand} : n \in DOMAIN e /\ e[n] = d[n]
  BY <1>2 DEF Bind, Unbind
<1>7. r.pc = "mark" => name \notin DOMAIN e
  BY DEF Unbind
<1>8. \A n \in DOMAIN Settled(d, q) : n \in DOMAIN d \ {cand} /\ Settled(d, q)[n] = d[n]
  BY DEF Settled
<1>9. h = g \cup {<<cand, m[q.file].digest>>}
  OBVIOUS
<1> HIDE DEF name, cand
<1>10. Grows(Settled(d, q), x, e, x)
  BY <1>2, <1>6, <1>8 DEF Grows
<1>11. KeepsFiles(e, x, g, m, p, q, b)
  BY <1>10, SavedStays DEF SavingInv
<1>12. \A n \in g : n[1] # cand
  BY <1>8 DEF SavingInv, KeepsFiles, PlacedIsKept
<1>13. Goes(d, x, g, m, q, e, x)
  BY <1>2, <1>6, <1>12 DEF Goes, cand
<1>14. NewIsWhole(e, x, g, h)
  BY <1>3, <1>4, <1>9 DEF NewIsWhole
<1>15. Apart(e)
  BY <1>2, <1>5 DEF SavingInv, Apart
<1>16. SharedIsPlaced(e, h)
  <2> SUFFICES ASSUME NEW n \in DOMAIN e \ FileNames, NEW o \in DOMAIN e \cap FileNames,
                      e[n] = e[o]
               PROVE  <<o, n[2]>> \in h
    BY DEF SharedIsPlaced
  <2>1. n \in DOMAIN d /\ e[n] = d[n]
    BY <1>2, <1>5
  <2>2. CASE o = cand
    <3>1. n = name
      BY <1>2, <1>3, <1>4, <2>1, <2>2 DEF SavingInv, Apart
    <3> QED BY <1>2, <1>9, <2>2, <3>1
  <2>3. CASE o # cand
    <3>1. o \in DOMAIN d /\ e[o] = d[o]
      BY <1>5, <2>3
    <3> QED BY <1>9, <2>1, <3>1 DEF SavingInv, SharedIsPlaced
  <2> QED BY <2>2, <2>3
<1>17. LeftoversAreKnown(e, x, m, r)
  <2>1. ASSUME NEW i \in Files, Unopened(r, i)
        PROVE  Held(e, x, PartName(m, i)) = r.parts[i].got
    <3>1. Unopened(q, i) /\ i # q.file
      BY <1>1, <2>1 DEF Unopened, Saving, Files
    <3>2. PartName(m, i) # name /\ PartName(m, i) # cand
      BY <1>1, <1>2, <3>1, PartsHaveNames DEF name
    <3>3. Held(e, x, PartName(m, i)) = Held(d, x, PartName(m, i))
      BY <1>5, <1>6, <3>2 DEF Held
    <3> QED BY <3>1, <3>3 DEF SavingInv, LeftoversAreKnown
  <2> QED BY <2>1 DEF LeftoversAreKnown
<1>18. IsSaved(e, x, m, q.file)
  BY <1>1, <1>3, <1>4 DEF IsSaved, cand
<1>19. DoneIsSaved(e, x, m, r)
  BY <1>11, <1>18 DEF KeepsFiles, DoneIsSaved, Saving, Finishing
<1>20. PlacedIsKept(e, x, h)
  <2>1. m[q.file].digest \in Chunks
    BY DEF Entry
  <2>2. IsPrefix(m[q.file].digest, x[e[cand]])
    BY <1>3, <1>4, <2>1, Beginnings
  <2>3. PlacedIsKept(e, x, g)
    BY <1>11 DEF KeepsFiles
  <2> QED BY <1>2, <1>4, <1>9, <2>1, <2>2, <2>3 DEF PlacedIsKept
<1>21. KeepsFiles(e, x, h, m, p, r, b)
  BY <1>11, <1>19, <1>20 DEF KeepsFiles
<1> QED BY <1>13, <1>14, <1>15, <1>16, <1>17, <1>21, SettledKeeps

\* The receiver is done with all its files, and after that.
LEMMA TransferEnds ==
    ASSUME NEW d, NEW x, NEW g, NEW m, NEW p, NEW q, NEW b,
           SavingInv(d, x, g, m, p, q, b),
           \/ q.pc = "open" /\ q.file = NumFiles + 1
           \/ q.pc \in Finishing,
           NEW r, r.pc \in Finishing,
           NEW c, c \in {b, Append(b, Accept(<<>>))}
    PROVE  SavingInv(d, x, g, m, p, r, c)
<1>1. KeepsFiles(d, x, g, m, p, q, b)
  BY SettledKeeps
<1>2. AllSaved(d, x, m)
  <2>1. CASE q.pc = "open" /\ q.file = NumFiles + 1
    <3>1. \A i \in Files : i < q.file
      BY <2>1, OfferAssumption DEF Files
    <3> QED BY <1>1, <2>1, <3>1 DEF KeepsFiles, DoneIsSaved, AllSaved, Saving
  <2>2. CASE q.pc \in Finishing
    BY <1>1, <2>2 DEF KeepsFiles, DoneIsSaved
  <2> QED BY <2>1, <2>2
<1>3. LeftoversAreKnown(d, x, m, r)
  BY DEF LeftoversAreKnown, Unopened, Saving, Finishing
<1>4. DoneIsSaved(d, x, m, r)
  BY <1>2 DEF DoneIsSaved, Saving, Finishing
<1>5. EndIsTrue(d, x, m, p, c)
  BY <1>2 DEF EndIsTrue
<1>6. KeepsFiles(d, x, g, m, p, r, c) /\ r.pc # "rename"
  BY <1>1, <1>4, <1>5 DEF KeepsFiles, Finishing
<1> QED BY <1>3, <1>6, SettledKeeps DEF SavingInv

-----------------------------------------------------------------------------
(* Steps of the system.                                                    *)

\* What a step has to do: leave what names stand for, name only what is whole, and
\* keep the invariant.
Saves(s) ==
    /\ Goes(dir, data, placed, manifest[s], rcv[s], dir', data')
    /\ NewIsWhole(dir', data', placed, placed')
    /\ SavingInv(dir', data', placed', manifest'[s], snd'[s], rcv'[s], back'[s])

\* What a receiver's transfer starts a step with.
LEMMA TransferHas ==
    ASSUME FolderInv, NEW s \in Senders
    PROVE  /\ SavingInv(dir, data, placed, manifest[s], snd[s], rcv[s], back[s])
           /\ KeepsFiles(dir, data, placed, manifest[s], snd[s], rcv[s], back[s])
           /\ DoneIsSaved(dir, data, manifest[s], rcv[s])
           /\ EndIsTrue(dir, data, manifest[s], snd[s], back[s])
           /\ StreamInv(manifest[s], snd[s], rcv[s], wire[s], back[s])
           /\ FolderFits(dir, data) /\ back[s] \in Seq(Answer)
           /\ \A name : IsTaken(name) <=> name \in DOMAIN dir
           /\ \A name \in DOMAIN dir : Inode(name) = dir[name]
<1>1. TransferInv /\ SavingInv(dir, data, placed, manifest[s], snd[s], rcv[s], back[s])
  BY DEF FolderInv
<1>2. StreamInv(manifest[s], snd[s], rcv[s], wire[s], back[s]) /\ FolderFits(dir, data)
  BY <1>1, ReceiverHas
<1>3. back[s] \in Seq(Answer)
  BY <1>2 DEF StreamInv, StreamTypes
<1>4. KeepsFiles(dir, data, placed, manifest[s], snd[s], rcv[s], back[s])
  BY <1>1, SettledKeeps
<1>5. \A name : IsTaken(name) <=> name \in DOMAIN dir
  BY <1>2 DEF IsTaken, Inode, FolderFits
<1>6. \A name \in DOMAIN dir : Inode(name) = dir[name]
  BY DEF Inode
<1> QED BY <1>1, <1>2, <1>3, <1>4, <1>5, <1>6 DEF KeepsFiles

\* Contents are compared by name.
LEMMA ContentsByName ==
    ASSUME NEW d, NEW x, NEW y, \A n \in DOMAIN d : y[d[n]] = x[d[n]]
    PROVE  /\ \A g, m, p, q, b :
                 SavingInv(d, x, g, m, p, q, b) => SavingInv(d, y, g, m, p, q, b)
           /\ \A c, z, g, m, q : Goes(c, z, g, m, q, d, x) => Goes(c, z, g, m, q, d, y)
           /\ \A g, h : NewIsWhole(d, x, g, h) => NewIsWhole(d, y, g, h)
<1>1. ASSUME NEW g, NEW m, NEW p, NEW q, NEW b, SavingInv(d, x, g, m, p, q, b)
      PROVE  SavingInv(d, y, g, m, p, q, b)
  <2>1. LeftoversAreKnown(d, y, m, q)
    BY <1>1 DEF SavingInv, LeftoversAreKnown, Held
  <2>2. Grows(Settled(d, q), x, Settled(d, q), y)
    BY DEF Grows, Settled
  <2>3. KeepsFiles(Settled(d, q), y, g, m, p, q, b)
    BY <1>1, <2>2, SavedStays DEF SavingInv
  <2> QED BY <1>1, <2>1, <2>3 DEF SavingInv
<1>2. \A c, z, g, m, q : Goes(c, z, g, m, q, d, x) => Goes(c, z, g, m, q, d, y)
  BY DEF Goes
<1>3. \A g, h : NewIsWhole(d, x, g, h) => NewIsWhole(d, y, g, h)
  BY DEF NewIsWhole
<1> QED BY <1>1, <1>2, <1>3

\* A step of a receiver is what it does to the names d and the contents y.
LEMMA ReceiverSaves ==
    ASSUME FolderInv, TransferInv', NEW s \in Senders,
           NEW r, NEW d, NEW y, Receives(s, r, d, y),
           NEW c, back'[s] = c,
           SavingInv(d, y, placed', manifest[s], snd[s], r, c),
           Goes(dir, data, placed, manifest[s], rcv[s], d, y),
           NewIsWhole(d, y, placed, placed')
    PROVE  Saves(s)
<1> DEFINE X == ({d[n] : n \in DOMAIN d} \cup
                 {[rcv EXCEPT ![s] = r][t].fd : t \in Senders}) \ {0}
<1>1. /\ dir' = d /\ rcv' = [rcv EXCEPT ![s] = r] /\ data' = [n \in X |-> y[n]]
      /\ UNCHANGED <<manifest, snd>>
  BY DEF Receives, Folder
<1>2. rcv'[s] = r
  BY <1>1 DEF FolderInv, TransferInv, StreamVars
<1>3. /\ dir' \in [DOMAIN dir' -> DOMAIN data'] /\ DOMAIN data' \subseteq Nat \ {0}
  BY DEF TransferInv, FolderTypes
<1> HIDE DEF X
<1>4. \A n \in DOMAIN d : data'[d[n]] = y[d[n]]
  BY <1>1, <1>3
<1>5. /\ SavingInv(d, data', placed', manifest[s], snd[s], r, c)
      /\ Goes(dir, data, placed, manifest[s], rcv[s], d, data')
      /\ NewIsWhole(d, data', placed, placed')
  BY <1>4, ContentsByName
<1> QED BY <1>1, <1>2, <1>5 DEF Saves

\* A folder in which what names stand for stays, and no file gets one.
LEMMA GrowingGoes ==
    ASSUME NEW d, NEW x, NEW e, NEW y, Grows(d, x, e, y)
    PROVE  /\ \A g, m, q : Goes(d, x, g, m, q, e, y)
           /\ \A g : NewIsWhole(e, y, g, g)
BY DEF Grows, Goes, NewIsWhole

\* A step of a receiver that gives no file a name.
LEMMA ReceiverKeeps ==
    ASSUME FolderInv, TransferInv', NEW s \in Senders,
           NEW r, NEW d, NEW y, Receives(s, r, d, y), UNCHANGED placed,
           NEW c, back'[s] = c,
           SavingInv(d, y, placed, manifest[s], snd[s], r, c),
           Grows(dir, data, d, y)
    PROVE  Saves(s)
<1>1. /\ Goes(dir, data, placed, manifest[s], rcv[s], d, y)
      /\ NewIsWhole(d, y, placed, placed')
  BY GrowingGoes
<1> HIDE DEF Receives
<1> QED BY <1>1, ReceiverSaves

\* Steps of a receiver that leave the folder as it is.
LEMMA FolderRests ==
    ASSUME NEW d, NEW x
    PROVE  Grows(d, x, d, x) /\ Loses(d, x, d, x)
BY DEF Grows, Loses

\* A receiver that stops, or has not begun to save, keeps what is saved.
LEMMA StoppingSaves ==
    ASSUME FolderInv, TransferInv', NEW s \in Senders,
           \/ TakeOffer(s) \/ ReceiveLost(s) \/ Sweep(s) \/ Decline(s) \/ Crash(s)
           \/ Mismatch(s) \/ PlaceFails(s)
    PROVE  Saves(s)
<1> DEFINE m == manifest[s]
           p == snd[s]
           q == rcv[s]
           b == back[s]
<1>1. /\ SavingInv(dir, data, placed, m, p, q, b) /\ StreamInv(m, p, q, wire[s], b)
      /\ b \in Seq(Answer) /\ EndIsTrue(dir, data, m, p, b)
      /\ KeepsFiles(dir, data, placed, m, p, q, b)
  BY TransferHas
<1>2. back \in [Senders -> Seq(Answer)]
  BY DEF FolderInv, TransferInv, StreamVars
<1>3. ASSUME NEW d, Loses(dir, data, d, data),
             NEW r, r.pc \in {"failed", "offer", "sweep", "resume"}, r.parts = <<>>,
             Receives(s, r, d, data), UNCHANGED placed,
             NEW said \in {<<>>, <<Refusal>>}, back'[s] = b \o said
      PROVE  Saves(s)
  <2>1. Grows(dir, data, d, data)
    BY <1>3, LosersKeep
  <2>2. EndIsTrue(d, data, m, p, b)
    <3>1. KeepsFiles(d, data, placed, m, p, q, b)
      BY <1>1, <2>1, SavedStays
    <3> QED BY <3>1 DEF KeepsFiles
  <2>3. EndIsTrue(d, data, m, p, b \o said)
    BY <1>1, <2>2, RefusalEndsNothing
  <2>4. SavingInv(d, data, placed, m, p, r, b \o said)
    BY <1>1, <1>3, <2>3, ReceiverLeaves
  <2> HIDE DEF Receives
  <2> QED BY <1>3, <2>1, <2>4, ReceiverKeeps
<1>4. Loses(dir, data, dir, data)
  BY FolderRests
<1>5. \A pc : Receiver(pc).pc = pc /\ Receiver(pc).parts = <<>>
  BY DEF Receiver
<1>6. b \o <<>> = b
  BY <1>1
<1>7. CASE TakeOffer(s)
  <2>1. Receives(s, Receiver("sweep"), dir, data) /\ UNCHANGED <<placed, back>>
    BY <1>7 DEF TakeOffer
  <2> HIDE DEF Receives
  <2> QED BY <1>3, <1>4, <1>5, <1>6, <2>1
<1>8. CASE ReceiveLost(s)
  <2>1. Receives(s, Receiver("failed"), dir, data) /\ UNCHANGED placed
        /\ back'[s] = b \o <<>>
    BY <1>2, <1>8 DEF ReceiveLost, ReceiveFails
  <2> HIDE DEF Receives
  <2> QED BY <1>3, <1>4, <1>5, <2>1
<1>9. CASE Sweep(s)
  <2> DEFINE swept == {n \in DOMAIN dir : stale => n \in FileNames}
             d == [n \in swept |-> dir[n]]
             r == [Receiver("resume") EXCEPT !.file = 1]
  <2>1. r.pc = "resume" /\ r.parts = <<>>
    BY DEF Receiver
  <2>2. Receives(s, r, d, data) /\ UNCHANGED <<placed, back>>
    BY <1>9 DEF Sweep
  <2>3. Loses(dir, data, d, data)
    BY DEF Loses
  <2> HIDE DEF Receives, d, r
  <2> QED BY <1>3, <1>6, <2>1, <2>2, <2>3
<1>10. CASE Decline(s)
  <2>1. Receives(s, Receiver("failed"), dir, data) /\ UNCHANGED placed
        /\ back'[s] = Append(b, Refusal)
    BY <1>2, <1>10 DEF Decline
  <2>2. Append(b, Refusal) = b \o <<Refusal>>
    <3>1. Refusal \in Answer
      BY DEF Refusal, Answer
    <3> HIDE DEF Refusal
    <3> QED BY <1>1, <3>1
  <2> HIDE DEF Receives
  <2> QED BY <1>3, <1>4, <1>5, <2>1, <2>2
<1>11. CASE Crash(s)
  <2>1. Receives(s, Receiver("failed"), dir, data) /\ UNCHANGED <<placed, back>>
    BY <1>11 DEF Crash
  <2> HIDE DEF Receives
  <2> QED BY <1>3, <1>4, <1>5, <1>6, <2>1
<1>12. CASE Mismatch(s)
  <2> DEFINE d == Unbind(dir, PartName(m, q.file))
  <2>1. Receives(s, Receiver("failed"), d, data) /\ UNCHANGED placed
        /\ q.pc = "receive" /\ back'[s] = b \o <<Refusal>>
    BY <1>2, <1>12 DEF Mismatch, ReceiveFails, AllReceived
  <2>2. q.file \in Files
    BY <2>1, ReceiverHas DEF FolderInv, Saving
  <2>3. Loses(dir, data, d, data)
    BY <2>2, PartsHaveNames DEF Loses, Unbind
  <2> HIDE DEF Receives, d
  <2> QED BY <1>3, <1>5, <2>1, <2>3
<1>13. CASE PlaceFails(s)
  <2>1. Receives(s, Receiver("failed"), dir, data) /\ UNCHANGED placed
        /\ back'[s] = b \o <<Refusal>>
    BY <1>2, <1>13 DEF PlaceFails, ReceiveFails
  <2> HIDE DEF Receives
  <2> QED BY <1>3, <1>4, <1>5, <2>1
<1> QED BY <1>7, <1>8, <1>9, <1>10, <1>11, <1>12, <1>13

\* resumeFrom's steps, and the answer to the offer.
LEMMA ResumingSaves ==
    ASSUME FolderInv, TransferInv', NEW s \in Senders,
           \/ ResumeComplete(s) \/ ResumePartial(s) \/ ResumeAfresh(s) \/ SendAccept(s)
    PROVE  Saves(s)
<1> DEFINE m == manifest[s]
           p == snd[s]
           q == rcv[s]
           b == back[s]
           i == rcv[s].file
           name == PartName(m, i)
<1>1. /\ SavingInv(dir, data, placed, m, p, q, b) /\ StreamInv(m, p, q, wire[s], b)
      /\ FolderFits(dir, data)
      /\ q \in Receiverly /\ b \in Seq(Answer)
      /\ \A n : IsTaken(n) <=> n \in DOMAIN dir
      /\ \A n \in DOMAIN dir : Inode(n) = dir[n]
  BY TransferHas, ReceiverHas DEF FolderInv
<1>2. q.pc = "resume"
  BY DEF ResumeComplete, ResumePartial, ResumeAfresh, SendAccept, Resuming
<1>3. ASSUME NEW d, d = dir \/ d = Unbind(dir, name), i \in Files,
             NEW part \in Part, part.complete => IsSaved(dir, data, m, i),
             ~part.complete => Held(d, data, name) = part.got,
             Resume(s, part, d)
      PROVE  Saves(s)
  <2> DEFINE r == [q EXCEPT !.parts = Append(q.parts, part), !.file = i + 1]
  <2>1. Receives(s, r, d, data) /\ UNCHANGED <<back, placed>>
    BY <1>1, <1>3 DEF Resume, Receiverly
  <2>2. r.pc = "resume" /\ r.file = i + 1 /\ r.parts = Append(q.parts, part)
    BY <1>1, <1>2 DEF Receiverly
  <2>3. Loses(dir, data, d, data) /\ DOMAIN dir \ {name} \subseteq DOMAIN d
    BY <1>3, PartsHaveNames DEF Loses, Unbind
  <2> HIDE DEF Receives, r
  <2>4. SavingInv(d, data, placed, m, p, r, b)
    BY <1>1, <1>2, <1>3, <2>2, <2>3, LeftoverIsFound
  <2>5. Grows(dir, data, d, data)
    BY <2>3, LosersKeep
  <2> QED BY <2>1, <2>4, <2>5, ReceiverKeeps
<1>4. i \in Files => m[i] \in Entry /\ m[i].size \in Nat
  <2> HAVE i \in Files
  <2>1. m \in [Files -> Entry]
    BY <1>2, ReceiverHas DEF FolderInv
  <2>2. m[i] \in Entry
    BY <2>1
  <2> QED BY <2>2 DEF Entry
<1>5. CASE ResumeComplete(s)
  <2> DEFINE part == [complete |-> TRUE, offset |-> m[i].size, got |-> <<>>]
  <2>1. i \in Files /\ HaveAlready(i, m[i])
    BY <1>5 DEF ResumeComplete, Resuming, IsComplete
  <2>2. IsSaved(dir, data, m, i)
    BY <1>1, <2>1, TransferAssumption DEF HaveAlready, IsSaved, SizeIsTrue
  <2>3. part \in Part /\ part.complete
    BY <1>4, <2>1 DEF Part, Chunks
  <2>4. Resume(s, part, Unbind(dir, name))
    BY <1>5 DEF ResumeComplete
  <2> HIDE DEF part, Resume
  <2> QED BY <1>3, <2>1, <2>2, <2>3, <2>4
<1>6. CASE ResumePartial(s)
  <2> DEFINE left == data[Inode(name)]
             part == [complete |-> FALSE, offset |-> Len(left), got |-> left]
  <2>1. i \in Files /\ name \in DOMAIN dir /\ left = data[dir[name]]
    BY <1>1, <1>6 DEF ResumePartial, Resuming, Usable
  <2>2. left \in Chunks
    BY <1>1, <2>1 DEF FolderFits
  <2>3. Len(left) \in Nat
    BY <2>2 DEF Chunks
  <2>4. Resume(s, part, dir)
    BY <1>6 DEF ResumePartial
  <2>5. Held(dir, data, name) = left
    BY <2>1 DEF Held
  <2> HIDE DEF left
  <2>6. part \in Part /\ ~part.complete /\ part.got = left
    BY <2>2, <2>3 DEF Part
  <2> HIDE DEF part, Resume
  <2> QED BY <1>3, <2>1, <2>4, <2>5, <2>6
<1>7. CASE ResumeAfresh(s)
  <2> DEFINE part == [complete |-> FALSE, offset |-> 0, got |-> <<>>]
  <2>1. i \in Files
    BY <1>7 DEF ResumeAfresh, Resuming
  <2>2. part \in Part /\ ~part.complete /\ part.got = <<>>
    BY DEF Part, Chunks
  <2>3. Resume(s, part, Unbind(dir, name))
    BY <1>7 DEF ResumeAfresh
  <2>4. Held(Unbind(dir, name), data, name) = <<>>
    BY DEF Held, Unbind
  <2> HIDE DEF part, Resume
  <2> QED BY <1>3, <2>1, <2>2, <2>3, <2>4
<1>8. CASE SendAccept(s)
  <2> DEFINE a == Accept([j \in Files |-> q.parts[j].offset])
             r == [q EXCEPT !.pc = "open", !.file = 1]
  <2>1. r.pc = "open" /\ r.file = 1 /\ r.parts = q.parts
    BY <1>1 DEF Receiverly
  <2>2. Receives(s, r, dir, data) /\ UNCHANGED placed /\ back'[s] = Append(b, a)
    BY <1>8 DEF SendAccept, FolderInv, TransferInv, StreamVars
  <2>3. b = <<>> /\ p.pc \in {"offered", "idle", "gone"}
    BY <1>1, <1>2 DEF StreamInv, TakesTurns
  <2> HIDE DEF a
  <2>4. Len(Append(b, a)) = 1
    BY <2>3
  <2>5. EndIsTrue(dir, data, m, p, Append(b, a))
    BY <2>3, <2>4 DEF EndIsTrue
  <2> HIDE DEF Receives, r
  <2>6. SavingInv(dir, data, placed, m, p, r, Append(b, a))
    BY <1>1, <1>2, <2>1, <2>5, FileIsNext
  <2> QED BY <2>2, <2>6, FolderRests, ReceiverKeeps
<1> QED BY <1>5, <1>6, <1>7, <1>8

\* receiveFile's steps, up to the check of the digest.
LEMMA ReceivingSaves ==
    ASSUME FolderInv, TransferInv', NEW s \in Senders,
           \/ SkipComplete(s) \/ OpenPart(s) \/ ReceiveChunk(s) \/ CloseFile(s)
    PROVE  Saves(s)
<1> DEFINE m == manifest[s]
           p == snd[s]
           q == rcv[s]
           b == back[s]
           i == rcv[s].file
           name == PartName(m, i)
<1>1. /\ SavingInv(dir, data, placed, m, p, q, b) /\ StreamInv(m, p, q, wire[s], b)
      /\ FolderFits(dir, data)
      /\ q \in Receiverly /\ EndIsTrue(dir, data, m, p, b)
      /\ DoneIsSaved(dir, data, m, q)
      /\ \A n : IsTaken(n) <=> n \in DOMAIN dir
  BY TransferHas, ReceiverHas DEF FolderInv
<1>2. q.pc \in {"open", "receive"} /\ i \in Files
  <2>1. q.pc \in {"open", "receive"} /\ (q.pc = "open" => i \in Files)
    BY DEF SkipComplete, OpenPart, Opening, ReceiveChunk, CloseFile, AllReceived
  <2> QED BY <2>1, ReceiverHas DEF FolderInv, Saving
<1>3. Grows(dir, data, dir, data)
  BY FolderRests
<1>4. CASE SkipComplete(s)
  <2> DEFINE r == [q EXCEPT !.file = i + 1]
  <2>1. r.pc = "open" /\ r.file = i + 1 /\ r.parts = q.parts
    BY <1>1, <1>4 DEF Receiverly, SkipComplete, Opening
  <2>2. Receives(s, r, dir, data) /\ UNCHANGED <<back, placed>>
    BY <1>4 DEF SkipComplete, ReceiveGoesOn
  <2>3. q.pc = "open" /\ q.parts[i].complete
    BY <1>4 DEF SkipComplete, Opening
  <2>4. Len(q.parts) = NumFiles
    BY <1>1, <2>3 DEF StreamInv, ReceiverFits, Saving
  <2>5. IsSaved(dir, data, m, i)
    BY <1>1, <1>2, <2>3, <2>4 DEF DoneIsSaved, Saving, Files
  <2> HIDE DEF Receives, r
  <2>6. SavingInv(dir, data, placed, m, p, r, b)
    BY <1>1, <1>2, <2>1, <2>3, <2>5, FileIsNext
  <2> QED BY <1>3, <2>2, <2>6, ReceiverKeeps
<1>5. CASE OpenPart(s)
  <2> DEFINE part == q.parts[i]
             inode == IF IsTaken(name) THEN dir[name] ELSE NewInode
             old == IF IsTaken(name) THEN data[inode] ELSE <<>>
             r == [q EXCEPT !.pc = "receive", !.fd = inode, !.got = part.got]
             y == [n \in DOMAIN data \cup {inode} |->
                     IF n = inode THEN Truncated(old, part.offset) ELSE data[n]]
             z == [n \in DOMAIN data \cup {inode} |->
                     IF n = inode THEN Truncated(Held(dir, data, name), part.offset)
                     ELSE data[n]]
             d == Bind(dir, name, inode)
  <2>1. Receives(s, r, d, y) /\ UNCHANGED <<back, placed>>
    BY <1>5 DEF OpenPart
  <2>2. q.pc = "open" /\ ~part.complete
    BY <1>5 DEF OpenPart, Opening
  <2>3. r.pc = "receive" /\ r.file = i /\ r.parts = q.parts /\ r.fd = inode /\ r.got = part.got
    BY <1>1 DEF Receiverly
  <2>4. name \in DOMAIN dir => inode = dir[name]
    BY <1>1
  <2>5. name \notin DOMAIN dir => inode \notin DOMAIN data
    BY <1>1, NewInodeIsNew DEF FolderInv, TransferInv
  <2>6. old = Held(dir, data, name)
    BY <1>1 DEF Held
  <2>7. y = z
    BY <2>6
  <2> HIDE DEF Receives, r, y, inode, old
  <2>8. SavingInv(d, y, placed, m, p, r, b) /\ Grows(dir, data, d, y)
    BY <1>1, <1>2, <2>2, <2>3, <2>4, <2>5, <2>7, LeftoverIsOpened
  <2> QED BY <2>1, <2>8, ReceiverKeeps
<1>6. CASE ReceiveChunk(s)
  <2> DEFINE chunk == Head(wire[s]).chunk
             r == [q EXCEPT !.got = Append(q.got, chunk)]
             y == [data EXCEPT ![q.fd] = Written(@, Len(q.got), chunk)]
  <2>1. Receives(s, r, dir, y) /\ UNCHANGED <<back, placed>>
    BY <1>1, <1>6 DEF ReceiveChunk, Receiverly
  <2>2. q.pc = "receive" /\ Len(q.got) < m[i].size /\ wire[s] # <<>>
    BY <1>6 DEF ReceiveChunk, Info
  <2>3. chunk \in Nat
    <3>1. wire[s] \in Seq(Piece)
      BY <1>1 DEF StreamInv, StreamTypes
    <3>2. Head(wire[s]) \in Piece
      BY <2>2, <3>1
    <3> QED BY <3>2 DEF Piece
  <2> HIDE DEF chunk
  <2>4. r.pc = "receive" /\ r.file = i /\ r.parts = q.parts /\ r.fd = q.fd
        /\ r.got = Append(q.got, chunk)
    BY <1>1, <2>2 DEF Receiverly
  <2>5. m[i] \in Entry
    <3>1. m \in [Files -> Entry]
      BY <2>2, ReceiverHas DEF FolderInv, Saving
    <3> QED BY <1>2, <3>1
  <2>6. y = [data EXCEPT ![q.fd] = Written(@, Len(q.got), chunk)]
    OBVIOUS
  <2> HIDE DEF Receives, r, y
  <2>7. SavingInv(dir, y, placed, m, p, r, b) /\ Goes(dir, data, placed, m, q, dir, y)
    <3> DEFINE w == wire[s]
    <3>1. /\ SavingInv(dir, data, placed, m, p, q, b) /\ StreamInv(m, p, q, w, b)
          /\ Len(q.got) < m[q.file].size
          /\ m[q.file] \in Entry /\ r.file = q.file
      BY <1>1, <2>2, <2>4, <2>5
    <3> HIDE DEF m, p, q, b, w
    <3> QED BY <1>1, <2>2, <2>3, <2>4, <2>6, <3>1, ChunkIsWritten
  <2>8. NewIsWhole(dir, y, placed, placed')
    BY <2>1 DEF NewIsWhole
  <2> QED BY <2>1, <2>7, <2>8, ReceiverSaves
<1>7. CASE CloseFile(s)
  <2> DEFINE r == [q EXCEPT !.pc = "look", !.fd = 0, !.got = <<>>]
  <2>1. r.pc = "look" /\ r.file = i /\ r.parts = q.parts
    BY <1>1 DEF Receiverly
  <2>2. Receives(s, r, dir, data) /\ UNCHANGED <<back, placed>>
    BY <1>7 DEF CloseFile, ReceiveGoesOn
  <2>3. q.pc = "receive" /\ q.got = m[i].digest /\ SizeIsTrue(m, i)
    BY <1>7 DEF CloseFile, AllReceived, DigestMatches, Info, SizeIsTrue
  <2>4. name \in DOMAIN dir /\ data[dir[name]] = m[i].digest
    BY <1>1, <2>3 DEF SavingInv, LeftoversAreKnown
  <2> HIDE DEF Receives, r
  <2>5. SavingInv(dir, data, placed, m, p, r, b)
    BY <1>1, <2>1, <2>3, <2>4, PlaceIsSought
  <2> QED BY <1>3, <2>2, <2>5, ReceiverKeeps
<1> QED BY <1>4, <1>5, <1>6, <1>7

\* place, and the mark behind it.
LEMMA PlacingSaves ==
    ASSUME FolderInv, TransferInv', NEW s \in Senders,
           \/ KeepTarget(s) \/ StartPlacing(s) \/ Link(s) \/ LookFirst(s)
           \/ Rename(s) \/ NameTaken(s) \/ Unlink(s) \/ Mark(s)
    PROVE  Saves(s)
<1> DEFINE m == manifest[s]
           p == snd[s]
           q == rcv[s]
           b == back[s]
           i == rcv[s].file
           name == PartName(m, i)
<1>1. /\ SavingInv(dir, data, placed, m, p, q, b) /\ StreamInv(m, p, q, wire[s], b)
      /\ FolderFits(dir, data)
      /\ q \in Receiverly /\ EndIsTrue(dir, data, m, p, b)
      /\ DoneIsSaved(dir, data, m, q)
      /\ \A n : IsTaken(n) <=> n \in DOMAIN dir
      /\ \A n \in DOMAIN dir : Inode(n) = dir[n]
  BY TransferHas, ReceiverHas DEF FolderInv
<1>2. q.pc \in {"look", "place", "rename", "unlink", "mark"}
  BY DEF KeepTarget, StartPlacing, Link, LookFirst, Rename, NameTaken, Unlink, Mark, Placing
<1>3. i \in Files
  BY <1>2, ReceiverHas DEF FolderInv, Saving
<1>4. Grows(dir, data, dir, data)
  BY FolderRests
<1>5. q.pc \in {"look", "place", "rename"} =>
        name \in DOMAIN dir /\ data[dir[name]] = m[i].digest /\ SizeIsTrue(m, i)
  BY <1>1 DEF SavingInv, LeftoversAreKnown
<1>6. CASE KeepTarget(s)
  <2> DEFINE r == [q EXCEPT !.pc = "mark"]
             d == Unbind(dir, name)
  <2>1. r.pc = "mark" /\ r.file = i /\ r.parts = q.parts
    BY <1>1 DEF Receiverly
  <2>2. Receives(s, r, d, data) /\ UNCHANGED <<back, placed>> /\ q.pc = "look"
        /\ HaveAlready(i, m[i])
    BY <1>6 DEF KeepTarget, Info
  <2>3. IsSaved(dir, data, m, i)
    BY <1>1, <2>2, TransferAssumption DEF HaveAlready, IsSaved, SizeIsTrue
  <2> HIDE DEF Receives, r
  <2>4. SavingInv(d, data, placed, m, p, r, b) /\ Grows(dir, data, d, data)
    BY <1>1, <1>3, <2>1, <2>2, <2>3, LeftoverIsDropped
  <2> QED BY <2>2, <2>4, ReceiverKeeps
<1>7. ASSUME NEW r, r.pc \in {"place", "rename"}, r.file = i, r.parts = q.parts,
             q.pc \in {"look", "place"},
             r.pc = "rename" =>
                 r.cand < MaxNameTries /\ Numbered(r.file, r.cand) \notin DOMAIN dir,
             Receives(s, r, dir, data), UNCHANGED <<back, placed>>
      PROVE  Saves(s)
  <2>1. SavingInv(dir, data, placed, m, p, r, b)
    BY <1>1, <1>5, <1>7, PlaceIsSought
  <2> HIDE DEF Receives
  <2> QED BY <1>4, <1>7, <2>1, ReceiverKeeps
<1>8. CASE StartPlacing(s)
  <2> DEFINE r == [q EXCEPT !.pc = "place", !.cand = 0]
  <2>1. r.pc = "place" /\ r.file = i /\ r.parts = q.parts
    BY <1>1 DEF Receiverly
  <2>2. Receives(s, r, dir, data) /\ UNCHANGED <<back, placed>> /\ q.pc = "look"
    BY <1>8 DEF StartPlacing, ReceiveGoesOn
  <2> HIDE DEF Receives, r
  <2> QED BY <1>7, <2>1, <2>2
<1>9. CASE NameTaken(s)
  <2> DEFINE r == [q EXCEPT !.cand = @ + 1]
  <2>1. r.pc = "place" /\ r.file = i /\ r.parts = q.parts
    BY <1>1, <1>9 DEF Receiverly, NameTaken, Placing
  <2>2. Receives(s, r, dir, data) /\ UNCHANGED <<back, placed>> /\ q.pc = "place"
    BY <1>9 DEF NameTaken, ReceiveGoesOn, Placing
  <2> HIDE DEF Receives, r
  <2> QED BY <1>7, <2>1, <2>2
<1>10. CASE LookFirst(s)
  <2> DEFINE r == [q EXCEPT !.pc = "rename"]
  <2>1. r.pc = "rename" /\ r.file = i /\ r.parts = q.parts /\ r.cand = q.cand
    BY <1>1 DEF Receiverly
  <2>2. Receives(s, r, dir, data) /\ UNCHANGED <<back, placed>> /\ q.pc = "place"
        /\ q.cand < MaxNameTries /\ ~IsTaken(Candidate(s))
    BY <1>10 DEF LookFirst, ReceiveGoesOn, Placing
  <2> HIDE DEF Receives, r
  <2>3. r.cand < MaxNameTries /\ Numbered(r.file, r.cand) \notin DOMAIN dir
    BY <1>1, <2>1, <2>2 DEF Candidate
  <2> QED BY <1>7, <2>1, <2>2, <2>3
<1>11. ASSUME NEW d, NEW r, r.file = i, r.parts = q.parts,
              q.pc \in {"place", "rename"}, q.cand < MaxNameTries,
              q.pc = "place" => Candidate(s) \notin DOMAIN dir,
              \/ r.pc = "unlink" /\ d = Bind(dir, Candidate(s), dir[name])
              \/ r.pc = "mark" /\ d = Unbind(Bind(dir, Candidate(s), dir[name]), name),
              Receives(s, r, d, data), UNCHANGED back, Names(s, Candidate(s))
       PROVE  Saves(s)
  <2> DEFINE h == placed'
  <2>1. h = placed \cup {<<Numbered(i, q.cand), m[i].digest>>}
    BY <1>11 DEF Names, Info, Candidate
  <2>2. m[i] \in Entry
    <3>1. m \in [Files -> Entry]
      BY <1>11, ReceiverHas DEF FolderInv, Saving
    <3> QED BY <1>3, <3>1
  <2> HIDE DEF h
  <2>3. /\ SavingInv(d, data, h, m, p, r, b) /\ Goes(dir, data, placed, m, q, d, data)
        /\ NewIsWhole(d, data, placed, h)
    BY <1>1, <1>11, <2>1, <2>2, FileGetsName DEF Candidate
  <2> HIDE DEF Receives
  <2> QED BY <1>11, <2>3, ReceiverSaves DEF h
<1>12. CASE Link(s)
  <2> DEFINE r == [q EXCEPT !.pc = "unlink"]
  <2>1. r.pc = "unlink" /\ r.file = i /\ r.parts = q.parts
    BY <1>1 DEF Receiverly
  <2>2. Receives(s, r, Bind(dir, Candidate(s), dir[name]), data) /\ UNCHANGED back
        /\ Names(s, Candidate(s)) /\ q.pc = "place" /\ q.cand < MaxNameTries
        /\ ~IsTaken(Candidate(s))
    BY <1>12 DEF Link, Placing, Source
  <2>3. Candidate(s) \notin DOMAIN dir
    BY <1>1, <2>2
  <2> HIDE DEF Receives, r
  <2> QED BY <1>11, <2>1, <2>2, <2>3
<1>13. CASE Rename(s)
  <2> DEFINE r == [q EXCEPT !.pc = "mark"]
  <2>1. r.pc = "mark" /\ r.file = i /\ r.parts = q.parts
    BY <1>1 DEF Receiverly
  <2>2. Receives(s, r, Unbind(Bind(dir, Candidate(s), dir[name]), name), data)
        /\ UNCHANGED back /\ Names(s, Candidate(s)) /\ q.pc = "rename"
    BY <1>13 DEF Rename, Source
  <2>3. q.cand < MaxNameTries
    BY <1>1, <2>2 DEF SavingInv, RenameFits
  <2> HIDE DEF Receives, r
  <2> QED BY <1>11, <2>1, <2>2, <2>3
<1>14. CASE Unlink(s)
  <2> DEFINE r == [q EXCEPT !.pc = "mark"]
             d == Unbind(dir, name)
  <2>1. r.pc = "mark" /\ r.file = i /\ r.parts = q.parts
    BY <1>1 DEF Receiverly
  <2>2. Receives(s, r, d, data) /\ UNCHANGED <<back, placed>> /\ q.pc = "unlink"
    BY <1>14 DEF Unlink, Source
  <2>3. IsSaved(dir, data, m, i)
    BY <1>1, <1>3, <2>2 DEF DoneIsSaved
  <2> HIDE DEF Receives, r
  <2>4. SavingInv(d, data, placed, m, p, r, b) /\ Grows(dir, data, d, data)
    BY <1>1, <1>3, <2>1, <2>2, <2>3, LeftoverIsDropped
  <2> QED BY <2>2, <2>4, ReceiverKeeps
<1>15. CASE Mark(s)
  <2> DEFINE r == [q EXCEPT !.pc = "open", !.file = @ + 1, !.cand = 0]
  <2>1. r.pc = "open" /\ r.file = i + 1 /\ r.parts = q.parts
    BY <1>1 DEF Receiverly
  <2>2. Receives(s, r, dir, data) /\ UNCHANGED <<back, placed>> /\ q.pc = "mark"
    BY <1>15 DEF Mark
  <2>3. IsSaved(dir, data, m, i)
    BY <1>1, <1>3, <2>2 DEF DoneIsSaved
  <2> HIDE DEF Receives, r
  <2>4. SavingInv(dir, data, placed, m, p, r, b)
    BY <1>1, <1>3, <2>1, <2>2, <2>3, FileIsNext
  <2> QED BY <1>4, <2>2, <2>4, ReceiverKeeps
<1> QED BY <1>6, <1>8, <1>9, <1>10, <1>12, <1>13, <1>14, <1>15

\* What follows the last file.
LEMMA FinishingSaves ==
    ASSUME FolderInv, TransferInv', NEW s \in Senders,
           Acknowledge(s) \/ ForgetFinished(s) \/ LingerEnds(s)
    PROVE  Saves(s)
<1> DEFINE m == manifest[s]
           p == snd[s]
           q == rcv[s]
           b == back[s]
<1>1. /\ SavingInv(dir, data, placed, m, p, q, b)
      /\ q \in Receiverly
  BY TransferHas, ReceiverHas DEF FolderInv
<1>2. back \in [Senders -> Seq(Answer)]
  BY DEF FolderInv, TransferInv, StreamVars
<1>3. ASSUME NEW r, r.pc \in Finishing, Receives(s, r, dir, data), UNCHANGED placed,
             \/ q.pc = "open" /\ q.file = NumFiles + 1
             \/ q.pc \in Finishing,
             back'[s] \in {b, Append(b, Accept(<<>>))}
      PROVE  Saves(s)
  <2> DEFINE c == back'[s]
  <2> HIDE DEF c, Receives
  <2>1. c \in {b, Append(b, Accept(<<>>))} /\ back'[s] = c
    BY <1>3 DEF c
  <2>2. SavingInv(dir, data, placed, m, p, r, c)
    BY <1>1, <1>3, <2>1, TransferEnds
  <2> QED BY <1>3, <2>1, <2>2, FolderRests, ReceiverKeeps
<1>4. CASE Acknowledge(s)
  <2> DEFINE r == [q EXCEPT !.pc = "forget"]
  <2>1. r.pc \in Finishing
    BY <1>1 DEF Receiverly, Finishing
  <2>2. /\ Receives(s, r, dir, data) /\ UNCHANGED placed
        /\ q.pc = "open" /\ q.file = NumFiles + 1
    BY <1>4 DEF Acknowledge
  <2>3. back'[s] = Append(b, Accept(<<>>))
    BY <1>2, <1>4 DEF Acknowledge
  <2> HIDE DEF Receives, r
  <2> QED BY <1>3, <2>1, <2>2, <2>3
<1>5. CASE ForgetFinished(s)
  <2>1. Receiver("linger").pc \in Finishing
    BY DEF Receiver, Finishing
  <2>2. /\ Receives(s, Receiver("linger"), dir, data) /\ UNCHANGED <<back, placed>>
        /\ q.pc \in Finishing
    BY <1>5 DEF ForgetFinished, Finishing
  <2> HIDE DEF Receives
  <2> QED BY <1>3, <2>1, <2>2
<1>6. CASE LingerEnds(s)
  <2>1. Receiver("done").pc \in Finishing
    BY DEF Receiver, Finishing
  <2>2. /\ Receives(s, Receiver("done"), dir, data) /\ UNCHANGED <<back, placed>>
        /\ q.pc \in Finishing
    BY <1>6 DEF LingerEnds, ReceiveGoesOn, Finishing
  <2> HIDE DEF Receives
  <2> QED BY <1>3, <2>1, <2>2
<1> QED BY <1>4, <1>5, <1>6

\* A step that leaves the folder alone, and the receiver.
LEMMA FolderIsLeft ==
    ASSUME FolderInv, NEW s \in Senders, UNCHANGED <<folder, rcv>>,
           SavingInv(dir, data, placed, manifest'[s], snd'[s], rcv[s], back'[s])
    PROVE  Saves(s)
<1>1. /\ dir' = dir /\ data' = data /\ placed' = placed /\ rcv' = rcv
  BY DEF folder
<1> QED BY <1>1, FolderRests, GrowingGoes DEF Saves

\* Send's steps, and the beginning of an attempt.
LEMMA SenderSaves ==
    ASSUME FolderInv, NEW s \in Senders, SendStep(s)
    PROVE  Saves(s)
<1> DEFINE m == manifest[s]
           p == snd[s]
           q == rcv[s]
           b == back[s]
           d == Settled(dir, q)
<1>1. EndIsTrue(d, data, m, p, b)
  BY DEF FolderInv, SavingInv, KeepsFiles
<1>2. /\ SavingInv(dir, data, placed, m, p, q, b) /\ StreamInv(m, p, q, wire[s], b)
      /\ b \in Seq(Answer)
  BY TransferHas
<1>3. /\ back \in [Senders -> Seq(Answer)] /\ manifest \in [Senders -> Seq(Entry)]
      /\ snd \in [Senders -> Senderly]
  BY DEF FolderInv, TransferInv, StreamVars
<1>4. UNCHANGED <<folder, rcv>>
  BY DEF SendStep, WaitEnds, OfferFailed, FileIsGone, SendManifest, Accepted, Refused,
         SendChunk, FileShrank, FileCannotOpen, NextFile, Acknowledged, SendLost,
         SendReturns, SendGoesOn
<1>5. ASSUME UNCHANGED manifest, EndIsTrue(d, data, m, snd'[s], back'[s])
      PROVE  Saves(s)
  <2>1. SavingInv(dir, data, placed, m, snd'[s], q, back'[s])
    BY <1>2, <1>5 DEF SavingInv, KeepsFiles
  <2> QED BY <1>4, <1>5, <2>1, FolderIsLeft
<1> HIDE DEF d
<1>6. ASSUME NEW pc \in {"idle", "gone"}, SendReturns(s, pc)
      PROVE  Saves(s)
  <2>1. snd'[s].pc = pc /\ UNCHANGED manifest
    BY <1>3, <1>6 DEF SendReturns, Sender
  <2>2. EndIsTrue(d, data, m, snd'[s], back'[s])
    BY <2>1 DEF EndIsTrue
  <2> QED BY <1>5, <2>1, <2>2
<1>7. CASE WaitEnds(s)
  <2>1. snd'[s].pc = "checking" /\ UNCHANGED manifest
    BY <1>3, <1>7 DEF WaitEnds, SendGoesOn, Sender, streams
  <2>2. EndIsTrue(d, data, m, snd'[s], back'[s])
    BY <2>1 DEF EndIsTrue
  <2> QED BY <1>5, <2>1, <2>2
<1>8. CASE SendManifest(s)
  <2>1. p.pc = "checking" /\ snd'[s].pc = "offered" /\ UNCHANGED back
    BY <1>3, <1>8 DEF SendManifest, SendGoesOn, Sender
  <2>2. b = <<>> /\ q.pc \in {"offer", "failed"}
    BY <1>2, <2>1 DEF StreamInv, TakesTurns
  <2> DEFINE m2 == manifest'[s]
             p2 == snd'[s]
  <2>3. p2.pc \in {"waiting", "checking", "offered"}
    BY <2>1
  <2> HIDE DEF m2, p2
  <2>4. SavingInv(dir, data, placed, m2, p2, q, <<>>)
    BY <1>2, <2>2, <2>3, ManifestIsNew
  <2>5. SavingInv(dir, data, placed, manifest'[s], snd'[s], rcv[s], back'[s])
    BY <2>1, <2>2, <2>4 DEF m2, p2
  <2> QED BY <1>4, <2>5, FolderIsLeft
<1>9. CASE Accepted(s)
  <2> DEFINE c == Tail(b)
  <2>1. /\ p.pc = "offered" /\ b # <<>> /\ back'[s] = c /\ UNCHANGED manifest
        /\ snd'[s].pc = "sending"
    BY <1>3, <1>9 DEF Accepted, SendGoesOn
  <2>2. \A k \in 1 .. Len(c) : k + 1 \in 1 .. Len(b) /\ c[k] = b[k + 1] /\ k + 1 > 1
    BY <1>2, <2>1
  <2>3. EndIsTrue(d, data, m, p, b)
    BY <1>1
  <2> HIDE DEF c
  <2>4. EndIsTrue(d, data, m, snd'[s], c)
    <3> SUFFICES ASSUME NEW k \in 1 .. Len(c), c[k].ok PROVE AllSaved(d, data, m)
      BY <2>1 DEF EndIsTrue
    <3>1. b[k + 1].ok
      BY <2>2
    <3> QED BY <2>1, <2>2, <2>3, <3>1 DEF EndIsTrue
  <2> QED BY <1>5, <2>1, <2>4
<1>10. CASE SendChunk(s)
  <2>1. /\ p.pc = "sending" /\ snd'[s].pc = "sending" /\ UNCHANGED <<manifest, back>>
    BY <1>3, <1>10 DEF SendChunk, SendGoesOn, Unsent, Senderly
  <2>2. EndIsTrue(d, data, m, snd'[s], back'[s])
    BY <1>1, <2>1 DEF EndIsTrue
  <2> QED BY <1>5, <2>1, <2>2
<1>11. CASE NextFile(s)
  <2>1. p.pc = "sending" /\ UNCHANGED <<manifest, back>>
    BY <1>11 DEF NextFile, streams
  <2>2. snd'[s].pc \in {"sending", "flushed"}
    <3>1. [p EXCEPT !.file = @ + 1, !.pos = p.offsets[p.file + 1]].pc = "sending"
      BY <1>3, <2>1 DEF Senderly
    <3> QED BY <1>3, <1>11, <3>1 DEF NextFile, SendGoesOn, Sender
  <2>3. EndIsTrue(d, data, m, snd'[s], back'[s])
    BY <1>1, <2>1, <2>2 DEF EndIsTrue
  <2> QED BY <1>5, <2>1, <2>3
<1>12. CASE Acknowledged(s)
  <2>1. /\ p.pc = "flushed" /\ b # <<>> /\ Head(b).ok /\ UNCHANGED manifest
        /\ snd'[s].pc = "delivered"
    BY <1>3, <1>12 DEF Acknowledged, SendReturns, Sender
  <2>2. 1 \in 1 .. Len(b) /\ b[1].ok
    BY <1>2, <2>1
  <2>3. AllSaved(d, data, m)
    BY <1>1, <2>1, <2>2 DEF EndIsTrue
  <2>4. EndIsTrue(d, data, m, snd'[s], back'[s])
    BY <2>1, <2>3 DEF EndIsTrue
  <2> QED BY <1>5, <2>1, <2>4
<1>13. CASE OfferFailed(s) \/ FileIsGone(s) \/ Refused(s) \/ FileShrank(s)
            \/ FileCannotOpen(s) \/ SendLost(s)
  BY <1>6, <1>13 DEF OfferFailed, FileIsGone, Refused, FileShrank, FileCannotOpen, SendLost
<1> QED BY <1>7, <1>8, <1>9, <1>10, <1>11, <1>12, <1>13 DEF SendStep

\* A new attempt finds the folder as the last one left it.
LEMMA AttemptSaves ==
    ASSUME FolderInv, NEW s \in Senders, Attempt(s)
    PROVE  Saves(s)
<1> DEFINE m2 == manifest'[s]
           p2 == snd'[s]
           q2 == rcv'[s]
<1>1. /\ back \in [Senders -> Seq(Answer)] /\ snd \in [Senders -> Senderly]
      /\ rcv \in [Senders -> Receiverly]
  BY DEF FolderInv, TransferInv, StreamVars
<1>2. /\ p2.pc = "waiting" /\ q2.pc = "offer" /\ back'[s] = <<>>
      /\ rcv[s].pc = "failed"
      /\ dir' = dir /\ data' = data /\ placed' = placed
  BY <1>1 DEF Attempt, Sender, Receiver, folder
<1>3. SavingInv(dir, data, placed, manifest[s], snd[s], rcv[s], back[s])
  BY DEF FolderInv
<1> HIDE DEF m2, p2, q2
<1>4. SavingInv(dir, data, placed, m2, p2, q2, <<>>)
  BY <1>2, <1>3, ManifestIsNew
<1> QED BY <1>2, <1>4, FolderRests, GrowingGoes DEF Saves, m2, p2, q2

\* A step of neither end leaves a transfer as it is.
LEMMA TransferRests ==
    ASSUME FolderInv, NEW s \in Senders, UNCHANGED <<back, manifest, snd, rcv>>,
           UNCHANGED <<dir, data, placed>>
    PROVE  Saves(s)
<1>1. SavingInv(dir, data, placed, manifest[s], snd[s], rcv[s], back[s])
  BY DEF FolderInv
<1> QED BY <1>1, FolderRests, GrowingGoes DEF Saves

\* A file of the user's own takes a free name and touches no other.
LEMMA ForeignSaves ==
    ASSUME FolderInv, TransferInv', NEW s \in Senders,
           NEW i \in Files, ForeignFile(i)
    PROVE  Saves(s)
<1> DEFINE m == manifest[s]
           p == snd[s]
           q == rcv[s]
           b == back[s]
           name == Numbered(i, 0)
           inode == NewInode
           d == Bind(dir, name, inode)
<1>1. /\ SavingInv(dir, data, placed, m, p, q, b) /\ StreamInv(m, p, q, wire[s], b)
      /\ FolderFits(dir, data)
      /\ \A n : IsTaken(n) <=> n \in DOMAIN dir
  BY TransferHas
<1>2. PICK c \in Contents : Folder(d, [n \in DOMAIN data \cup {inode} |->
                                        IF n = inode THEN c ELSE data[n]], rcv)
  BY DEF ForeignFile
<1> DEFINE y == [n \in DOMAIN data \cup {inode} |-> IF n = inode THEN c ELSE data[n]]
<1>3. /\ name \notin DOMAIN dir /\ UNCHANGED <<back, manifest, snd, placed>>
  BY <1>1 DEF ForeignFile, streams
<1>4. inode \notin DOMAIN data
  BY NewInodeIsNew DEF FolderInv, TransferInv
<1>5. name \in FileNames
  BY TransferAssumption, NumbersAreFiles
<1> HIDE DEF name, inode
<1>6. /\ DOMAIN d = DOMAIN dir \cup {name} /\ d[name] = inode
      /\ \A n \in DOMAIN dir : d[n] = dir[n] /\ y[d[n]] = data[dir[n]] /\ d[n] # inode
  BY <1>1, <1>3, <1>4 DEF Bind, FolderFits
<1>7. q.fd # 0 => y[q.fd] = data[q.fd]
  BY <1>1, <1>4 DEF FolderFits, FolderInv, TransferInv, FolderTypes
<1> HIDE DEF d, y
<1>8. Grows(dir, data, d, y)
  BY <1>6 DEF Grows
<1>9. Apart(d)
  BY <1>1, <1>5, <1>6 DEF SavingInv, Apart
<1>10. SharedIsPlaced(d, placed)
  <2> SUFFICES ASSUME NEW n \in DOMAIN d \ FileNames, NEW o \in DOMAIN d \cap FileNames,
                      d[n] = d[o]
               PROVE  <<o, n[2]>> \in placed
    BY DEF SharedIsPlaced
  <2>1. n \in DOMAIN dir /\ o \in DOMAIN dir
    BY <1>5, <1>6
  <2> QED BY <1>1, <1>6, <2>1 DEF SavingInv, SharedIsPlaced
<1>11. \A j \in Files : Held(d, y, PartName(m, j)) = Held(dir, data, PartName(m, j))
  BY <1>5, <1>6, PartsHaveNames DEF Held
<1>12. LeftoversAreKnown(d, y, m, q)
  <2>1. LeftoversAreKnown(dir, data, m, q)
    BY <1>1 DEF SavingInv
  <2>2. q.pc = "receive" => q.fd # 0
    BY <1>1 DEF StreamInv, StreamTypes
  <2> QED BY <1>6, <1>7, <1>11, <2>1, <2>2 DEF LeftoversAreKnown
<1>13. Grows(Settled(dir, q), data, Settled(d, q), y)
  BY <1>6 DEF Grows, Settled
<1>14. KeepsFiles(Settled(d, q), y, placed, m, p, q, b)
  BY <1>1, <1>13, SavedStays DEF SavingInv
<1>15. SavingInv(d, y, placed, m, p, q, b)
  BY <1>1, <1>9, <1>10, <1>12, <1>14 DEF SavingInv
<1>16. rcv' = rcv /\ dir' = d /\ \A n \in DOMAIN d : data'[d[n]] = y[d[n]]
  <2>1. Folder(d, y, rcv)
    BY <1>2 DEF y
  <2>2. rcv' = rcv /\ dir' = d
    BY <2>1 DEF Folder
  <2>3. dir' \in [DOMAIN dir' -> DOMAIN data'] /\ DOMAIN data' \subseteq Nat \ {0}
    BY DEF TransferInv, FolderTypes
  <2> DEFINE X == ({d[n] : n \in DOMAIN d} \cup {rcv[t].fd : t \in Senders}) \ {0}
  <2>4. data' = [n \in X |-> y[n]]
    BY <2>1 DEF Folder
  <2> HIDE DEF X
  <2> QED BY <2>2, <2>3, <2>4
<1>17. SavingInv(d, data', placed, m, p, q, b) /\ Grows(dir, data, d, data')
  BY <1>8, <1>15, <1>16, ContentsByName DEF Grows
<1> QED BY <1>3, <1>16, <1>17, GrowingGoes DEF Saves

-----------------------------------------------------------------------------
(* The invariant holds, and with it what the folder promises.              *)

\* The folder is empty at first, and no transfer has begun.
LEMMA InitSaves == Init => FolderInv
<1> SUFFICES ASSUME Init PROVE FolderInv
  OBVIOUS
<1>1. TransferInv
  BY InitHolds
<1>2. DOMAIN dir = {} /\ placed = {}
  BY DEF Init
<1>3. ASSUME NEW s \in Senders
      PROVE  SavingInv(dir, data, placed, manifest[s], snd[s], rcv[s], back[s])
  <2>1. snd[s].pc = "idle" /\ rcv[s].pc = "failed"
    BY DEF Init, Sender, Receiver
  <2>2. Apart(dir) /\ SharedIsPlaced(dir, placed) /\ PlacedIsKept(dir, data, placed)
    BY <1>2 DEF Apart, SharedIsPlaced, PlacedIsKept
  <2>3. LeftoversAreKnown(dir, data, manifest[s], rcv[s])
    BY <2>1 DEF LeftoversAreKnown, Unopened, Saving
  <2>4. /\ DoneIsSaved(dir, data, manifest[s], rcv[s])
        /\ EndIsTrue(dir, data, manifest[s], snd[s], back[s])
    BY <2>1 DEF DoneIsSaved, EndIsTrue, Saving, Finishing
  <2> QED BY <2>1, <2>2, <2>3, <2>4, SettledKeeps DEF KeepsFiles
<1> QED BY <1>1, <1>3 DEF FolderInv

\* What a step of the only receiver does to the folder, as the properties say it.
FolderGoes ==
    /\ \A n \in FileNames \cap DOMAIN dir :
          \/ n \in DOMAIN dir' /\ data'[dir'[n]] = data[dir[n]]
          \/ \E s \in Senders :
                \/ /\ WritesOn(s, n)
                   /\ n \in DOMAIN dir' /\ IsPrefix(data[dir[n]], data'[dir'[n]])
                \/ /\ rcv[s].pc = "rename" /\ n = Candidate(s)
                   /\ \A p \in placed : n # p[1]
    /\ NewIsWhole(dir', data', placed, placed')

\* Every step of the only receiver keeps the invariant, and what names stand for.
LEMMA NextSaves == OneReceiver /\ FolderInv /\ [Next]_vars => FolderInv' /\ FolderGoes
<1> SUFFICES ASSUME OneReceiver, FolderInv, [Next]_vars PROVE FolderInv' /\ FolderGoes
  OBVIOUS
<1>1. TransferInv /\ TransferInv'
  BY NextHolds DEF FolderInv
<1>2. PICK s \in Senders : Senders = {s}
  BY DEF OneReceiver
<1>3. ASSUME OfferStep(s) PROVE Saves(s)
  BY <1>3, TransferRests DEF OfferStep, streams, folder
<1>4. ASSUME ReceiveStep(s) PROVE Saves(s)
  BY <1>1, <1>4, StoppingSaves, ResumingSaves, ReceivingSaves, PlacingSaves,
     FinishingSaves DEF ReceiveStep
<1>5. ASSUME Disturb PROVE Saves(s)
  <2>1. CASE \E i \in Files : OwnerEdits(s, i)
    BY <2>1, TransferRests DEF OwnerEdits, streams, folder
  <2>2. CASE Drop(s)
    BY <2>2, TransferRests DEF Drop, folder
  <2>3. CASE Crash(s) \/ UserDeclines(s)
    BY <1>1, <2>3, StoppingSaves DEF UserDeclines
  <2>4. CASE \E i \in Files : ForeignFile(i)
    BY <1>1, <2>4, ForeignSaves
  <2>5. CASE WeekPasses
    BY <2>5, TransferRests DEF WeekPasses, streams
  <2> QED BY <1>2, <1>5, <2>1, <2>2, <2>3, <2>4, <2>5 DEF Disturb
<1>6. ASSUME Rest \/ UNCHANGED vars PROVE Saves(s)
  BY <1>6, TransferRests DEF Rest, vars, streams, folder
<1>7. Saves(s)
  BY <1>2, <1>3, <1>4, <1>5, <1>6, SenderSaves, AttemptSaves DEF Next
<1>8. FolderInv'
  <2>1. \A t \in Senders :
           SavingInv(dir', data', placed', manifest'[t], snd'[t], rcv'[t], back'[t])
    BY <1>2, <1>7 DEF Saves
  <2> QED BY <1>1, <2>1 DEF FolderInv
<1>9. ASSUME NEW n \in FileNames \cap DOMAIN dir
      PROVE  \/ n \in DOMAIN dir' /\ data'[dir'[n]] = data[dir[n]]
             \/ /\ WritesOn(s, n)
                /\ n \in DOMAIN dir' /\ IsPrefix(data[dir[n]], data'[dir'[n]])
             \/ /\ rcv[s].pc = "rename" /\ n = Candidate(s)
                /\ \A p \in placed : n # p[1]
  <2>1. Goes(dir, data, placed, manifest[s], rcv[s], dir', data')
    BY <1>7 DEF Saves
  <2>2. WritesOnSaved(dir, placed, manifest[s], rcv[s], n) => WritesOn(s, n)
    BY DEF WritesOnSaved, WritesOn, Info, Inode
  <2> QED BY <2>1, <2>2 DEF Goes, Candidate
<1>10. FolderGoes
  BY <1>7, <1>9 DEF FolderGoes, Saves
<1> QED BY <1>8, <1>10

\* The invariant holds of every behaviour with one receiver.
LEMMA SavingHolds == OneReceiver /\ Spec => [](OneReceiver /\ FolderInv)
<1>1. OneReceiver /\ FolderInv /\ [Next]_vars => FolderInv'
  BY NextSaves
<1>2. OneReceiver => OneReceiver'
  BY DEF OneReceiver
<1> QED BY <1>1, <1>2, InitSaves, PTL DEF Spec

\* What receiveFile and place have saved is kept by one receiver, whatever crashes,
\* edits and attempts follow: it keeps its name, and begins with what its digest
\* promised.
THEOREM SavedAreKept == OneReceiver /\ Spec => []SavedFilesAreKept
<1>1. FolderInv /\ OneReceiver => SavedFilesAreKept
  <2> SUFFICES ASSUME FolderInv, OneReceiver PROVE SavedFilesAreKept
    OBVIOUS
  <2>1. PICK s \in Senders : TRUE
    BY DEF OneReceiver
  <2>2. PlacedIsKept(dir, data, placed) /\ \A name : IsTaken(name) <=> name \in DOMAIN dir
    BY TransferHas DEF KeepsFiles
  <2> QED BY <2>2 DEF PlacedIsKept, SavedFilesAreKept
<1> QED BY <1>1, SavingHolds, PTL

\* place's "an existing file is never replaced", step by step and whatever happens to
\* one receiver and its sender: what a name stands for stays as it is, but for a saved
\* file that is written on, and for a rename without hard links, which never takes the
\* name of a saved file.
THEOREM NoneIsReplaced == OneReceiver /\ Spec => NothingIsReplaced
<1> DEFINE A == \A n \in FileNames \cap DOMAIN dir :
                  \/ n \in DOMAIN dir' /\ data'[dir'[n]] = data[dir[n]]
                  \/ \E s \in Senders :
                        \/ /\ WritesOn(s, n)
                           /\ n \in DOMAIN dir' /\ IsPrefix(data[dir[n]], data'[dir'[n]])
                        \/ /\ rcv[s].pc = "rename" /\ n = Candidate(s)
                           /\ \A p \in placed : n # p[1]
<1>1. OneReceiver /\ FolderInv /\ [Next]_vars => A
  BY NextSaves DEF FolderGoes
<1> QED BY <1>1, SavingHolds, PTL DEF Spec, NothingIsReplaced

\* A saved file that is whole stays so in a step in which none is written on.
LEMMA WholeStays ==
    OneReceiver /\ FolderInv /\ [Next]_vars /\ ~SavedIsResumed /\ SavedFilesAreWhole
        => SavedFilesAreWhole'
<1> SUFFICES ASSUME OneReceiver, FolderInv, [Next]_vars, ~SavedIsResumed,
                    SavedFilesAreWhole
             PROVE  SavedFilesAreWhole'
  OBVIOUS
<1>1. FolderInv' /\ FolderGoes
  BY NextSaves
<1>2. PICK s \in Senders : TRUE
  BY DEF OneReceiver
<1>3. PlacedIsKept(dir, data, placed) /\ PlacedIsKept(dir', data', placed')
  <2>1. SavingInv(dir, data, placed, manifest[s], snd[s], rcv[s], back[s])
    BY DEF FolderInv
  <2>2. SavingInv(dir', data', placed', manifest'[s], snd'[s], rcv'[s], back'[s])
    BY <1>1 DEF FolderInv
  <2> QED BY <2>1, <2>2, SettledKeeps DEF KeepsFiles
<1>4. \A name \in DOMAIN dir' : IsTaken(name)'
  <2>1. \A name \in DOMAIN dir' : dir'[name] \in DOMAIN data' /\ dir'[name] # 0
    BY <1>1 DEF FolderInv, TransferInv, FolderTypes
  <2> QED BY <2>1 DEF IsTaken, Inode
<1>5. ASSUME NEW p \in placed' PROVE data'[dir'[p[1]]] = p[2]
  <2>1. CASE p \notin placed
    BY <1>1, <1>5, <2>1 DEF FolderGoes, NewIsWhole
  <2>2. CASE p \in placed
    <3>1. p[1] \in FileNames \cap DOMAIN dir /\ data[dir[p[1]]] = p[2]
      BY <1>3, <2>2 DEF PlacedIsKept, SavedFilesAreWhole
    <3>2. \A t \in Senders : ~WritesOn(t, p[1])
      BY <2>2 DEF SavedIsResumed
    <3>3. data'[dir'[p[1]]] = data[dir[p[1]]]
      BY <1>1, <2>2, <3>1, <3>2 DEF FolderGoes
    <3> QED BY <3>1, <3>3
  <2> QED BY <2>1, <2>2
<1>6. \A p \in placed' : IsTaken(p[1])'
  BY <1>3, <1>4 DEF PlacedIsKept
<1> QED BY <1>5, <1>6 DEF SavedFilesAreWhole

\* "The final name only appears once the digest matches, so an interrupted transfer
\* can never leave a corrupt file that looks complete": so it is for one receiver, as
\* long as it never writes on a file that was saved.  It does so in one case only,
\* which SavedIsResumed names: a crash left the name of the leftover behind its
\* link, and a later manifest has the same digest and says there is more.
THEOREM SavedAreWhole == OneReceiver /\ Spec /\ []~SavedIsResumed => []SavedFilesAreWhole
<1>1. Init => SavedFilesAreWhole
  BY DEF Init, SavedFilesAreWhole
<1> QED BY <1>1, WholeStays, SavingHolds, PTL DEF Spec

\* Send does not "declare success before the files are safely on disk": once it
\* returns nil, every file of the manifest is in the one receiver's folder under one
\* of its names.
THEOREM DeliveredMeansSaved == OneReceiver /\ Spec => []DeliveredIsSaved
<1>1. FolderInv => DeliveredIsSaved
  <2> SUFFICES ASSUME FolderInv, NEW s \in Senders, snd[s].pc = "delivered", NEW i \in Files
               PROVE  \E k \in 0 .. MaxNameTries - 1 :
                        /\ IsTaken(Numbered(i, k))
                        /\ data[dir[Numbered(i, k)]] = manifest[s][i].digest
    BY DEF DeliveredIsSaved
  <2>1. AllSaved(dir, data, manifest[s])
    BY TransferHas DEF EndIsTrue
  <2>2. \A j \in Files : SizeIsTrue(manifest[s], j)
    BY <2>1 DEF AllSaved, IsSaved
  <2> QED BY <2>1, <2>2, TransferHas DEF AllSaved, IsSaved
<1> QED BY <1>1, SavingHolds, PTL
=============================================================================
