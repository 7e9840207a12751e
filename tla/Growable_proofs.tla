--------------------------- MODULE Growable_proofs ---------------------------
(***************************************************************************)
(* Theorems about Growable, for every size of a value, every number of     *)
(* items in a session, every nesting, every pair of compatible versions    *)
(* and every part of the document that arrives, of documents below 256     *)
(* bytes: of a session's size the model has the lowest byte.               *)
(***************************************************************************)
EXTENDS Growable, SequenceTheorems, FiniteSetTheorems, TLAPS

(***************************************************************************)
(* Paths.                                                                  *)
(***************************************************************************)
Paths == Seq(Nat \ {0}) \ {<< >>}

Elder(p)   == Append(Front(p), Last(p) - 1)
Upto(p, k) == SubSeq(p, 1, k)

LEMMA UptoType ==
  ASSUME NEW p \in Seq(Nat \ {0}), NEW k \in 0 .. Len(p)
  PROVE  /\ Upto(p, k) \in Seq(Nat \ {0}) /\ Len(Upto(p, k)) = k
         /\ \A i \in 1 .. k : Upto(p, k)[i] = p[i]
<1>1. k \in Nat /\ Len(p) \in Nat
  OBVIOUS
<1>2. \A i \in 1 .. k : i \in 1 .. Len(p)
  BY <1>1
<1>. QED
  BY <1>1, <1>2, SubSeqProperties DEF Upto

\* Paths that agree up to a depth.
LEMMA UptoSame ==
  ASSUME NEW p \in Seq(Nat \ {0}), NEW q \in Seq(Nat \ {0}),
         NEW k \in 0 .. Len(p), k <= Len(q), \A i \in 1 .. k : p[i] = q[i]
  PROVE  Upto(p, k) = Upto(q, k)
<1>1. k \in 0 .. Len(q)
  OBVIOUS
<1>2. /\ Upto(p, k) \in Seq(Nat \ {0}) /\ Len(Upto(p, k)) = k
      /\ Upto(q, k) \in Seq(Nat \ {0}) /\ Len(Upto(q, k)) = k
  BY <1>1, UptoType
<1>3. ASSUME NEW i \in 1 .. k PROVE Upto(p, k)[i] = Upto(q, k)[i]
  BY <1>1, UptoType
<1>. QED
  BY <1>2, <1>3, SeqEqual

LEMMA PathParts ==
  ASSUME NEW p \in Paths
  PROVE  /\ p \in Seq(Nat \ {0}) /\ Len(p) \in Nat \ {0}
         /\ Last(p) \in Nat \ {0} /\ Last(p) = p[Len(p)]
         /\ Front(p) = Upto(p, Len(p) - 1) /\ Len(p) - 1 \in 0 .. Len(p)
         /\ Front(p) \in Seq(Nat \ {0}) /\ Len(Front(p)) = Len(p) - 1
         /\ \A i \in 1 .. Len(p) - 1 : Front(p)[i] = p[i]
         /\ Upto(p, Len(p)) = p
         /\ Len(p) > 1 => Front(p) \in Paths
<1>1. p \in Seq(Nat \ {0}) /\ Len(p) \in Nat \ {0} /\ p[Len(p)] \in Nat \ {0}
  BY DEF Paths
<1>2. Front(p) = Upto(p, Len(p) - 1) /\ Len(p) - 1 \in 0 .. Len(p) /\ Len(p) \in 0 .. Len(p)
  BY <1>1 DEF Front, Upto
<1>3. /\ Front(p) \in Seq(Nat \ {0}) /\ Len(Front(p)) = Len(p) - 1
      /\ \A i \in 1 .. Len(p) - 1 : Front(p)[i] = p[i]
  <2>1. PICK m \in 0 .. Len(p) : m = Len(p) - 1
    BY <1>2
  <2>2. /\ Upto(p, m) \in Seq(Nat \ {0}) /\ Len(Upto(p, m)) = m
        /\ \A i \in 1 .. m : Upto(p, m)[i] = p[i]
    BY <1>1, <2>1, UptoType
  <2>. QED
    BY <1>2, <2>1, <2>2
<1>4. /\ Upto(p, Len(p)) \in Seq(Nat \ {0}) /\ Len(Upto(p, Len(p))) = Len(p)
      /\ \A i \in 1 .. Len(p) : Upto(p, Len(p))[i] = p[i]
  BY <1>1, <1>2, UptoType
<1>5. Upto(p, Len(p)) = p
  BY <1>1, <1>4, SeqEqual
<1>6. Len(p) > 1 => Front(p) \in Paths
  BY <1>1, <1>3 DEF Paths
<1>. QED
  BY <1>1, <1>2, <1>3, <1>5, <1>6 DEF Last

\* A path is its session's and its index.
LEMMA Joint ==
  ASSUME NEW s \in Seq(Nat \ {0}), NEW i \in Nat \ {0}
  PROVE  /\ Append(s, i) \in Paths /\ Len(Append(s, i)) = Len(s) + 1
         /\ Front(Append(s, i)) = s /\ Last(Append(s, i)) = i
         /\ \A k \in 0 .. Len(s) : Upto(Append(s, i), k) = Upto(s, k)
         /\ \A k \in 1 .. Len(s) : Append(s, i)[k] = s[k]
<1>. DEFINE p == Append(s, i)
<1>1. /\ p \in Seq(Nat \ {0}) /\ p # << >> /\ Len(p) = Len(s) + 1
      /\ \A k \in 1 .. Len(s) : p[k] = s[k]
      /\ p[Len(s) + 1] = i
  BY AppendProperties, SMTT(30)
<1>2. Len(s) \in Nat
  OBVIOUS
<1>. HIDE DEF p
<1>3. p \in Paths
  BY <1>1 DEF Paths
<1>4. /\ Front(p) \in Seq(Nat \ {0}) /\ Len(Front(p)) = Len(s)
      /\ \A k \in 1 .. Len(s) : Front(p)[k] = p[k]
      /\ Last(p) = i
  <2>1. /\ Front(p) \in Seq(Nat \ {0}) /\ Len(Front(p)) = Len(p) - 1 /\ Last(p) = p[Len(p)]
        /\ \A k \in 1 .. Len(p) - 1 : Front(p)[k] = p[k]
    BY <1>3, PathParts
  <2>2. Len(p) - 1 = Len(s)
    BY <1>1, <1>2
  <2>. QED
    BY <1>1, <2>1, <2>2
<1>5. \A k \in 1 .. Len(s) : Front(p)[k] = s[k]
  BY <1>1, <1>4
<1>6. Front(p) = s
  BY <1>4, <1>5, SeqEqual
<1>7. ASSUME NEW k \in 0 .. Len(s) PROVE Upto(p, k) = Upto(s, k)
  <2>1. k \in 0 .. Len(p) /\ \A j \in 1 .. k : p[j] = s[j]
    BY <1>1, <1>2
  <2>. QED
    BY <1>1, <2>1, UptoSame
<1>. QED
  BY <1>1, <1>3, <1>4, <1>6, <1>7 DEF p

\* Two items of a session differ by their index.
LEMMA SamePath ==
  ASSUME NEW p \in Paths
  PROVE  /\ p = Append(Front(p), Last(p))
         /\ \A q \in Paths : Front(p) = Front(q) /\ Last(p) = Last(q) => p = q
<1>1. ASSUME NEW q \in Paths PROVE q = Append(Front(q), Last(q))
  <2>1. /\ Front(q) \in Seq(Nat \ {0}) /\ Len(Front(q)) = Len(q) - 1 /\ Len(q) \in Nat \ {0}
        /\ Last(q) \in Nat \ {0} /\ Last(q) = q[Len(q)] /\ q \in Seq(Nat \ {0})
        /\ \A i \in 1 .. Len(q) - 1 : Front(q)[i] = q[i]
    BY PathParts
  <2>. DEFINE r == Append(Front(q), Last(q))
  <2>2. /\ r \in Seq(Nat \ {0}) /\ Len(r) = Len(q) - 1 + 1
        /\ \A i \in 1 .. Len(q) - 1 : r[i] = Front(q)[i]
        /\ r[Len(q) - 1 + 1] = Last(q)
    BY <2>1, AppendProperties
  <2>. HIDE DEF r
  <2>3. Len(q) - 1 + 1 = Len(q)
    BY <2>1
  <2>4. ASSUME NEW i \in 1 .. Len(q) PROVE q[i] = r[i]
    <3>1. CASE i = Len(q)
      BY <2>1, <2>2, <2>3, <3>1
    <3>2. CASE i # Len(q)
      <4>1. i \in 1 .. Len(q) - 1
        BY <2>1, <3>2
      <4>. QED
        BY <2>1, <2>2, <4>1
    <3>. QED
      BY <3>1, <3>2
  <2>5. q = r
    BY <2>1, <2>2, <2>3, <2>4, SeqEqual, SMTT(30)
  <2>. QED
    BY <2>5 DEF r
<1>. QED
  BY <1>1

LEMMA UptoPath ==
  ASSUME NEW p \in Paths, NEW k \in 1 .. Len(p)
  PROVE  /\ Upto(p, k) \in Paths /\ Len(Upto(p, k)) = k
         /\ Front(Upto(p, k)) = Upto(p, k - 1) /\ Last(Upto(p, k)) = p[k]
<1>1. /\ p \in Seq(Nat \ {0}) /\ Len(p) \in Nat /\ k \in Nat \ {0}
      /\ k \in 0 .. Len(p) /\ k - 1 \in 0 .. Len(p) /\ k \in 1 .. k
  BY DEF Paths
<1>2. /\ Upto(p, k) \in Seq(Nat \ {0}) /\ Len(Upto(p, k)) = k
      /\ \A i \in 1 .. k : Upto(p, k)[i] = p[i]
  BY <1>1, UptoType
<1>3. Upto(p, k) \in Paths
  BY <1>1, <1>2 DEF Paths
<1>4. Front(Upto(p, k)) = Upto(Upto(p, k), k - 1) /\ Last(Upto(p, k)) = p[k]
  BY <1>1, <1>2, <1>3, PathParts
<1>5. k - 1 \in 0 .. Len(Upto(p, k)) /\ \A i \in 1 .. k - 1 : Upto(p, k)[i] = p[i]
  BY <1>1, <1>2, SMTT(30)
<1>6. Upto(Upto(p, k), k - 1) = Upto(p, k - 1)
  BY <1>1, <1>2, <1>5, UptoSame, SMTT(30)
<1>. QED
  BY <1>2, <1>3, <1>4, <1>6

LEMMA ChildPath ==
  ASSUME NEW p \in Paths
  PROVE  /\ Child(p) \in Paths /\ Front(Child(p)) = p /\ Last(Child(p)) = 1
         /\ Len(Child(p)) = Len(p) + 1
         /\ \A k \in 0 .. Len(p) : Upto(Child(p), k) = Upto(p, k)
         /\ \A k \in 1 .. Len(p) : Child(p)[k] = p[k]
BY Joint, PathParts DEF Child

\* Up to an item's session, whatever the item.
LEMMA UptoFront ==
  ASSUME NEW p \in Paths
  PROVE  /\ \A k \in 0 .. Len(p) - 1 : Upto(Front(p), k) = Upto(p, k)
         /\ \A k \in 1 .. Len(p) - 1 : Front(p)[k] = p[k]
<1>1. p = Append(Front(p), Last(p)) /\ Front(p) \in Seq(Nat \ {0}) /\ Last(p) \in Nat \ {0}
      /\ Len(Front(p)) = Len(p) - 1
  BY PathParts, SamePath
<1>. DEFINE f == Front(p)
            i == Last(p)
<1>2. f \in Seq(Nat \ {0}) /\ i \in Nat \ {0} /\ Append(f, i) = p /\ Len(f) = Len(p) - 1
  BY <1>1
<1>. HIDE DEF f, i
<1>3. /\ \A k \in 0 .. Len(f) : Upto(Append(f, i), k) = Upto(f, k)
      /\ \A k \in 1 .. Len(f) : Append(f, i)[k] = f[k]
  BY <1>2, Joint
<1>. QED
  BY <1>2, <1>3 DEF f

LEMMA SiblingPath ==
  ASSUME NEW p \in Paths
  PROVE  /\ Sibling(p) \in Paths /\ Front(Sibling(p)) = Front(p)
         /\ Last(Sibling(p)) = Last(p) + 1 /\ Len(Sibling(p)) = Len(p)
         /\ Elder(Sibling(p)) = p
         /\ \A k \in 0 .. Len(p) - 1 : Upto(Sibling(p), k) = Upto(p, k)
         /\ \A k \in 1 .. Len(p) - 1 : Sibling(p)[k] = p[k]
<1>1. /\ Front(p) \in Seq(Nat \ {0}) /\ Last(p) \in Nat \ {0} /\ Last(p) + 1 \in Nat \ {0}
      /\ Len(p) \in Nat /\ Len(Front(p)) = Len(p) - 1 /\ p = Append(Front(p), Last(p))
  BY PathParts, SamePath
<1>2. /\ Sibling(p) \in Paths /\ Front(Sibling(p)) = Front(p)
      /\ Last(Sibling(p)) = Last(p) + 1 /\ Len(Sibling(p)) = Len(p) - 1 + 1
      /\ \A k \in 0 .. Len(p) - 1 : Upto(Sibling(p), k) = Upto(Front(p), k)
      /\ \A k \in 1 .. Len(p) - 1 : Sibling(p)[k] = Front(p)[k]
  BY <1>1, Joint DEF Sibling
<1>3. Last(p) + 1 - 1 = Last(p) /\ Len(p) - 1 + 1 = Len(p)
  BY <1>1
<1>4. Elder(Sibling(p)) = p
  <2>1. Front(Sibling(p)) = Front(p) /\ Last(Sibling(p)) - 1 = Last(p)
    BY <1>1, <1>2
  <2>2. Append(Front(Sibling(p)), Last(Sibling(p)) - 1) = Append(Front(p), Last(p))
    BY <2>1, Zenon
  <2>. QED
    BY <1>1, <2>2, Zenon DEF Elder
<1>. QED
  BY <1>2, <1>3, <1>4, UptoFront

\* An elder sibling is an item of the same session.
LEMMA ElderPath ==
  ASSUME NEW p \in Paths, Last(p) > 1
  PROVE  /\ Elder(p) \in Paths /\ Front(Elder(p)) = Front(p)
         /\ Last(Elder(p)) = Last(p) - 1 /\ Len(Elder(p)) = Len(p)
<1>1. /\ Front(p) \in Seq(Nat \ {0}) /\ Last(p) - 1 \in Nat \ {0}
      /\ Len(Front(p)) + 1 = Len(p)
  BY PathParts
<1>. QED
  BY <1>1, Joint DEF Elder

-----------------------------------------------------------------------------
(***************************************************************************)
(* The output adapter between two calls of the writer: everything in the   *)
(* container was written, and the cursor is behind it.                     *)
(***************************************************************************)
AtEnd(w) == /\ w \in Writer(Int)
            /\ w.bufferSize = Len(w.bytes) /\ w.currOffset = Len(w.bytes)
            /\ w.biggestCurrentPos <= w.currOffset

LEMMA FunctionIsSeq ==
  ASSUME NEW S, NEW n \in Nat, NEW f \in [ 1 .. n -> S ]
  PROVE  f \in Seq(S) /\ Len(f) = n
OBVIOUS

\* What was written so far stays, and the new bytes are behind it.
LEMMA PutAtEnd ==
  ASSUME NEW w, AtEnd(w), NEW data \in Seq(Int), Len(data) > 0
  PROVE  /\ AtEnd(Put(w, data))
         /\ Put(w, data).currOffset = w.currOffset + Len(data)
         /\ \A i \in 1 .. w.currOffset : Put(w, data).bytes[i] = w.bytes[i]
         /\ \A i \in 1 .. Len(data) : Put(w, data).bytes[w.currOffset + i] = data[i]
<1>. PICK c \in Nat : c = w.currOffset
  BY DEF AtEnd, Writer
<1>. PICK m \in Nat : m = Len(data)
  OBVIOUS
<1>1. /\ w \in Writer(Int) /\ w.bytes \in Seq(Int) /\ Len(w.bytes) = c /\ w.bufferSize = c
      /\ w.currOffset = c /\ w.biggestCurrentPos \in Nat /\ w.biggestCurrentPos <= c
      /\ m > 0 /\ data \in Seq(Int) /\ Len(data) = m
  BY DEF AtEnd, Writer
<1>. DEFINE grown == [ i \in 1 .. c + m |-> IF i <= c THEN w.bytes[i] ELSE 0 ]
            v == [ w EXCEPT !.bytes = grown, !.block = 0, !.beginIt = 0, !.bufferSize = c + m ]
            over == [ i \in 1 .. c + m |-> IF i \in c + 1 .. c + m THEN data[i - c] ELSE grown[i] ]
<1>2. MaybeResize(w, w.currOffset + Len(data), w.currOffset + Len(data), 0) = v
  BY <1>1 DEF MaybeResize, NeedsRoom, DoResize, Resized
<1>3. grown \in [ 1 .. c + m -> Int ] /\ grown \in Seq(Int) /\ Len(grown) = c + m
  <2>1. \A i \in 1 .. c + m : i <= c => w.bytes[i] \in Int
    BY <1>1
  <2>2. grown \in [ 1 .. c + m -> Int ]
    BY <2>1
  <2>3. c + m \in Nat
    OBVIOUS
  <2>. HIDE DEF grown
  <2>. QED
    BY <2>2, <2>3, FunctionIsSeq
<1>4. over \in Seq(Int) /\ Len(over) = c + m
  <2>1. \A i \in 1 .. c + m : i \in c + 1 .. c + m => i - c \in 1 .. m
    OBVIOUS
  <2>2. \A j \in 1 .. m : data[j] \in Int
    BY <1>1
  <2>. HIDE DEF grown
  <2>3. over \in [ 1 .. c + m -> Int ]
    BY <1>3, <2>1, <2>2
  <2>4. c + m \in Nat
    OBVIOUS
  <2>. HIDE DEF over
  <2>. QED
    BY <2>3, <2>4, FunctionIsSeq
<1>12. /\ v.bytes = grown /\ v.bufferSize = c + m /\ v.currOffset = c
       /\ v.biggestCurrentPos = w.biggestCurrentPos
       /\ v \in Writer(Int)
  <2>. HIDE DEF grown
  <2>1. c + m \in Nat
    OBVIOUS
  <2>. QED
    BY <1>1, <1>3, <2>1 DEF Writer
<1>5. Put(w, data) = [ v EXCEPT !.bytes = over, !.currOffset = c + m ]
  <2>1. Put(w, data) = [ v EXCEPT !.bytes = Overwrite(v.bytes, c, data), !.currOffset = c + m ]
    BY <1>1, <1>2 DEF Put, WriteBytes
  <2>2. Overwrite(v.bytes, c, data) = over
    BY <1>1, <1>3, <1>12 DEF Overwrite
  <2>. QED
    BY <2>1, <2>2
<1>6. /\ Put(w, data).bytes = over /\ Put(w, data).currOffset = c + m
      /\ Put(w, data).bufferSize = c + m /\ Put(w, data).biggestCurrentPos = w.biggestCurrentPos
      /\ Put(w, data) \in Writer(Int)
  <2>. HIDE DEF v, over
  <2>1. c + m \in Nat
    OBVIOUS
  <2>. QED
    BY <1>4, <1>5, <1>12, <2>1 DEF Writer
<1>7. \A i \in 1 .. c : over[i] = w.bytes[i]
  BY <1>1
<1>8. \A i \in 1 .. m : over[c + i] = data[i]
  <2>1. \A i \in 1 .. m : c + i \in c + 1 .. c + m /\ c + i \in 1 .. c + m /\ (c + i) - c = i
    OBVIOUS
  <2>. QED
    BY <2>1
<1>. QED
  BY <1>1, <1>4, <1>6, <1>7, <1>8 DEF AtEnd

\* The fix-up of a header changes its bytes and nothing else.
LEMMA Patched ==
  ASSUME NEW w, AtEnd(w), NEW startPos \in Nat, startPos + HeaderSize <= w.currOffset
  PROVE  /\ AtEnd(PatchHeader(w, startPos))
         /\ PatchHeader(w, startPos).currOffset = w.currOffset
         /\ PatchHeader(w, startPos).bytes[startPos + 1] = w.currOffset - startPos
         /\ \A i \in 1 .. w.currOffset : i \notin startPos + 1 .. startPos + HeaderSize =>
              PatchHeader(w, startPos).bytes[i] = w.bytes[i]
<1>. PICK c \in Nat : c = w.currOffset
  BY DEF AtEnd, Writer
<1>1. /\ w \in Writer(Int) /\ w.bytes \in Seq(Int) /\ Len(w.bytes) = c /\ w.bufferSize = c
      /\ w.currOffset = c /\ w.biggestCurrentPos \in Nat /\ w.biggestCurrentPos <= c
      /\ startPos + 4 <= c
  BY DEF AtEnd, Writer, HeaderSize
<1>. DEFINE data == Header(c - startPos)
            u == [ w EXCEPT !.biggestCurrentPos = c, !.currOffset = startPos ]
            over == [ i \in 1 .. c |-> IF i \in startPos + 1 .. startPos + 4
                                         THEN data[i - startPos] ELSE w.bytes[i] ]
            v == [ u EXCEPT !.bytes = over, !.currOffset = startPos + 4 ]
<1>2. MoveTo(w, startPos) = u
  <2>1. MaybeResize(w, startPos, startPos, 0) = w
    BY <1>1 DEF MaybeResize, NeedsRoom
  <2>2. Larger(w.biggestCurrentPos, Larger(w.currOffset, startPos)) = c
    BY <1>1 DEF Larger
  <2>. QED
    BY <2>1, <2>2 DEF MoveTo, SetWritePos
<1>3. /\ u \in Writer(Int) /\ u.bytes = w.bytes /\ u.bufferSize = c
      /\ u.biggestCurrentPos = c /\ u.currOffset = startPos
  BY <1>1 DEF Writer
<1>4. data \in Seq(Int) /\ Len(data) = 4 /\ data[1] = c - startPos
  BY <1>1 DEF Header
<1>. HIDE DEF u, data
<1>5. Put(u, data) = v
  <2>1. MaybeResize(u, u.currOffset + Len(data), u.currOffset + Len(data), 0) = u
    BY <1>1, <1>3, <1>4 DEF MaybeResize, NeedsRoom
  <2>2. Overwrite(u.bytes, startPos, data) = over
    BY <1>1, <1>3, <1>4 DEF Overwrite
  <2>. QED
    BY <1>3, <1>4, <2>1, <2>2 DEF Put, WriteBytes
<1>6. over \in Seq(Int) /\ Len(over) = c
  <2>1. \A i \in 1 .. c : i \in startPos + 1 .. startPos + 4 => i - startPos \in 1 .. 4
    OBVIOUS
  <2>2. /\ \A j \in 1 .. 4 : data[j] \in Int
        /\ \A i \in 1 .. c : w.bytes[i] \in Int
    <3>1. \A j \in 1 .. Len(data) : data[j] \in Int
      <4>1. data \in Seq(Int)
        BY <1>4
      <4>. QED
        BY <4>1, ElementOfSeq
    <3>2. \A i \in 1 .. Len(w.bytes) : w.bytes[i] \in Int
      BY <1>1
    <3>. QED
      BY <1>1, <1>4, <3>1, <3>2, Zenon
  <2>3. over \in [ 1 .. c -> Int ]
    BY <2>1, <2>2
  <2>. HIDE DEF over
  <2>. QED
    BY <2>3, FunctionIsSeq
<1>7. /\ v \in Writer(Int) /\ v.bytes = over /\ v.bufferSize = c
      /\ v.biggestCurrentPos = c /\ v.currOffset = startPos + 4
  <2>. HIDE DEF over
  <2>1. startPos + 4 \in Nat
    OBVIOUS
  <2>. QED
    BY <1>3, <1>6, <2>1 DEF Writer
<1>8. over[startPos + 1] = c - startPos
  <2>1. startPos + 1 \in 1 .. c /\ startPos + 1 \in startPos + 1 .. startPos + 4
        /\ (startPos + 1) - startPos = 1
    BY <1>1
  <2>. QED
    BY <1>4, <2>1
<1>9. \A i \in 1 .. c : i \notin startPos + 1 .. startPos + 4 => over[i] = w.bytes[i]
  OBVIOUS
<1>. HIDE DEF v, over
<1>10. MoveTo(v, c) = [ v EXCEPT !.biggestCurrentPos = c, !.currOffset = c ]
  <2>1. MaybeResize(v, c, c, 0) = v
    BY <1>7 DEF MaybeResize, NeedsRoom
  <2>2. Larger(v.biggestCurrentPos, Larger(v.currOffset, c)) = c
    BY <1>1, <1>7 DEF Larger
  <2>. QED
    BY <2>1, <2>2 DEF MoveTo, SetWritePos
<1>11. PatchHeader(w, startPos) = MoveTo(v, c)
  BY <1>1, <1>2, <1>5 DEF PatchHeader, GetWritePos, data
<1>12. /\ PatchHeader(w, startPos) \in Writer(Int) /\ PatchHeader(w, startPos).bytes = over
       /\ PatchHeader(w, startPos).bufferSize = c
       /\ PatchHeader(w, startPos).biggestCurrentPos = c
       /\ PatchHeader(w, startPos).currOffset = c
  BY <1>7, <1>10, <1>11 DEF Writer
<1>. QED
  BY <1>1, <1>6, <1>8, <1>9, <1>12 DEF AtEnd, HeaderSize

-----------------------------------------------------------------------------
(***************************************************************************)
(* The document, while it is written.                                      *)
(***************************************************************************)
WriterType ==
  /\ AtEnd(wr)
  /\ wpath \in Paths /\ wopen \in Seq(Nat) /\ Len(wpath) = Len(wopen) + 1
  /\ DOMAIN items \subseteq Paths /\ IsFiniteSet(DOMAIN items)
  /\ items \in [ DOMAIN items -> Seq(Int) ] /\ at \in [ DOMAIN items -> Nat ]

\* The bytes of an item itself, a session's header or a value, and all of
\* its bytes, a session's content included.
IsSession(p) == items[p] = << >>
OwnSize(item) == IF item = << >> THEN HeaderSize ELSE Len(item)
OwnEnd(p) == at[p] + OwnSize(items[p])
EndOf(p)  == at[p] + (IF IsSession(p) THEN wr.bytes[at[p] + 1] ELSE Len(items[p]))

\* Where an item starts: behind its elder sibling, or behind the header.
Place(p) == IF Last(p) > 1 THEN EndOf(Elder(p))
            ELSE IF Len(p) > 1 THEN at[Front(p)] + HeaderSize ELSE 0

\* The sessions whose size is not known yet.
Opened == { Upto(wpath, k) : k \in 1 .. Len(wopen) }

\* An item's session and its elder siblings exist.
Tree ==
  /\ \A p \in DOMAIN items : Len(p) > 1 => Exists(Front(p)) /\ IsSession(Front(p))
  /\ \A p \in DOMAIN items : Last(p) > 1 => Exists(Elder(p))

\* The writer's stack is its path in the tree, and what exists is what comes
\* before it.
Around ==
  \A k \in 1 .. Len(wopen) : /\ Exists(Upto(wpath, k)) /\ IsSession(Upto(wpath, k))
                             /\ wopen[k] = at[Upto(wpath, k)]
Before ==
  /\ \A k \in 1 .. Len(wopen), c \in Paths :
       Len(c) = k /\ Front(c) = Upto(wpath, k - 1) => (Exists(c) <=> Last(c) <= wpath[k])
  /\ \A c \in Paths :
       Front(c) = Front(wpath) => (Exists(c) <=> Last(c) < Last(wpath))

\* Items are side by side, each at its place, and the next one's place is
\* the end of what was written.
Apart ==
  /\ \A p \in DOMAIN items : OwnEnd(p) <= wr.currOffset
  /\ \A p, q \in DOMAIN items : p # q => OwnEnd(p) <= at[q] \/ OwnEnd(q) <= at[p]
Placed == \A p \in DOMAIN items : at[p] = Place(p)
NextPlace == wr.currOffset = Place(wpath)

\* The bytes of the values are there.
Kept == \A p \in DOMAIN items : \A i \in 1 .. Len(items[p]) :
          wr.bytes[at[p] + i] = items[p][i]

\* A closed session's header tells where the session ends, which is where
\* its last item ends.
Sized ==
  \A p \in DOMAIN items \ Opened :
    /\ IsSession(p) => wr.bytes[at[p] + 1] \in Nat
    /\ OwnEnd(p) <= EndOf(p) /\ EndOf(p) <= wr.currOffset
    /\ Len(p) > 1 /\ Front(p) \notin Opened => EndOf(p) <= EndOf(Front(p))
Filled ==
  \A c \in Paths :
    /\ ~Exists(c) /\ (Last(c) > 1 => Exists(Elder(c)))
    /\ Len(c) > 1 /\ Exists(Front(c)) /\ IsSession(Front(c)) /\ Front(c) \notin Opened
    => Place(c) = EndOf(Front(c))

DocInv == /\ WriterType /\ Tree /\ Around /\ Before /\ Apart /\ Placed /\ NextPlace
          /\ Kept /\ Sized /\ Filled

LEMMA ItemTypes ==
  ASSUME WriterType, NEW p \in DOMAIN items
  PROVE  /\ p \in Paths /\ items[p] \in Seq(Int) /\ Len(items[p]) \in Nat
         /\ at[p] \in Nat /\ OwnSize(items[p]) \in Nat \ {0} /\ OwnEnd(p) \in Nat
         /\ OwnEnd(p) = at[p] + OwnSize(items[p])
<1>1. /\ p \in Paths /\ items[p] \in Seq(Int) /\ at[p] \in Nat
  BY DEF WriterType
<1>2. Len(items[p]) \in Nat /\ (items[p] # << >> => Len(items[p]) # 0)
  BY <1>1
<1>. QED
  BY <1>1, <1>2 DEF OwnSize, OwnEnd, HeaderSize

\* Where the writer is: nothing exists there yet, and around it.
LEMMA HereIsFree ==
  ASSUME DocInv
  PROVE  /\ wpath \in Paths /\ ~Exists(wpath)
         /\ Last(wpath) > 1 => Elder(wpath) \in DOMAIN items
         /\ Len(wpath) > 1 => /\ Front(wpath) \in DOMAIN items /\ IsSession(Front(wpath))
                              /\ Front(wpath) \in Opened
                              /\ Len(wopen) > 0 /\ wopen[Len(wopen)] = at[Front(wpath)]
         /\ wr.currOffset \in Nat /\ Len(wr.bytes) = wr.currOffset
         /\ Len(wpath) \in Nat \ {0} /\ Len(wopen) = Len(wpath) - 1
<1>1. /\ wpath \in Paths /\ Len(wopen) \in Nat /\ Len(wpath) = Len(wopen) + 1
      /\ wr.currOffset \in Nat /\ Len(wr.bytes) = wr.currOffset
  BY DEF DocInv, WriterType, AtEnd, Writer
<1>2. ~Exists(wpath)
  <2>1. Last(wpath) \in Nat
    BY <1>1, PathParts
  <2>. QED
    BY <1>1, <2>1 DEF DocInv, Before
<1>3. ASSUME Last(wpath) > 1 PROVE Elder(wpath) \in DOMAIN items
  <2>1. /\ Elder(wpath) \in Paths /\ Front(Elder(wpath)) = Front(wpath)
        /\ Last(Elder(wpath)) = Last(wpath) - 1
    BY <1>1, <1>3, ElderPath
  <2>2. Last(wpath) - 1 < Last(wpath)
    BY <1>1, PathParts
  <2>. QED
    BY <2>1, <2>2 DEF DocInv, Before, Exists
<1>4. ASSUME Len(wpath) > 1
      PROVE  /\ Front(wpath) \in DOMAIN items /\ IsSession(Front(wpath))
             /\ Front(wpath) \in Opened
             /\ Len(wopen) > 0 /\ wopen[Len(wopen)] = at[Front(wpath)]
  <2>1. Len(wopen) \in 1 .. Len(wopen) /\ Front(wpath) = Upto(wpath, Len(wopen))
    <3>1. Front(wpath) = Upto(wpath, Len(wpath) - 1)
      BY <1>1, PathParts
    <3>2. Len(wpath) - 1 = Len(wopen)
      BY <1>1
    <3>. QED
      BY <1>1, <1>4, <3>1, <3>2
  <2>2. Len(wopen) > 0
    BY <1>1, <1>4
  <2>. QED
    BY <2>1, <2>2 DEF DocInv, Around, Exists, Opened
<1>. QED
  BY <1>1, <1>2, <1>3, <1>4

\* An item more at the end of what was written.
Adds(w, item, data) ==
  /\ w \in Paths /\ w = wpath /\ item \in Seq(Int) /\ data \in Seq(Int)
  /\ Len(data) = OwnSize(item) /\ (item = << >> \/ item = data)
  /\ wr' = Put(wr, data) /\ Record(item)

LEMMA Recording ==
  ASSUME DocInv, NEW w, NEW item, NEW data, Adds(w, item, data)
  PROVE  /\ DOMAIN items' = DOMAIN items \union {w} /\ w \notin DOMAIN items
         /\ items'[w] = item /\ at'[w] = wr.currOffset
         /\ \A p \in DOMAIN items : items'[p] = items[p] /\ at'[p] = at[p]
         /\ items' \in [ DOMAIN items' -> Seq(Int) ] /\ at' \in [ DOMAIN items' -> Nat ]
         /\ DOMAIN items' \subseteq Paths /\ IsFiniteSet(DOMAIN items')
         /\ AtEnd(wr)' /\ wr'.currOffset = wr.currOffset + Len(data) /\ Len(data) \in Nat \ {0}
         /\ \A i \in 1 .. wr.currOffset : wr'.bytes[i] = wr.bytes[i]
         /\ \A i \in 1 .. Len(data) : wr'.bytes[wr.currOffset + i] = data[i]
<1>1. /\ wpath \in Paths /\ w \notin DOMAIN items /\ wr.currOffset \in Nat
      /\ DOMAIN items \subseteq Paths /\ IsFiniteSet(DOMAIN items)
      /\ items \in [ DOMAIN items -> Seq(Int) ] /\ at \in [ DOMAIN items -> Nat ]
      /\ AtEnd(wr) /\ item \in Seq(Int) /\ w \in Paths
  BY HereIsFree DEF DocInv, WriterType, Exists, Adds
<1>2. /\ items' = [ p \in DOMAIN items \union {w} |-> IF p = w THEN item ELSE items[p] ]
      /\ at' = [ p \in DOMAIN items \union {w} |-> IF p = w THEN wr.currOffset ELSE at[p] ]
  BY <1>1 DEF Record, Recorded, GetWritePos, Adds
<1>3. Len(data) \in Nat \ {0} /\ data \in Seq(Int) /\ Len(data) > 0
  <2>1. Len(item) \in Nat /\ (item # << >> => Len(item) # 0)
    BY <1>1
  <2>. QED
    BY <2>1 DEF OwnSize, HeaderSize, Adds
<1>4. /\ AtEnd(Put(wr, data)) /\ Put(wr, data).currOffset = wr.currOffset + Len(data)
      /\ \A i \in 1 .. wr.currOffset : Put(wr, data).bytes[i] = wr.bytes[i]
      /\ \A i \in 1 .. Len(data) : Put(wr, data).bytes[wr.currOffset + i] = data[i]
  BY <1>1, <1>3, PutAtEnd
<1>5. IsFiniteSet(DOMAIN items \union {w})
  BY <1>1, FS_AddElement
<1>6. wr' = Put(wr, data)
  BY DEF Adds
<1>7. DOMAIN items' = DOMAIN items \union {w}
  BY <1>2
<1>8. AtEnd(wr)'
  BY <1>4, <1>6 DEF AtEnd
<1>. QED
  BY <1>1, <1>2, <1>3, <1>4, <1>5, <1>6, <1>7, <1>8

LEMMA Advances ==
  ASSUME DocInv, NEW w, NEW item, NEW data, Adds(w, item, data)
  PROVE  wr'.currOffset = wr.currOffset + Len(data)
<1>1. Len(item) \in Nat /\ (item # << >> => Len(item) # 0)
  BY DEF Adds
<1>2. /\ AtEnd(wr) /\ data \in Seq(Int) /\ Len(data) \in Nat /\ Len(data) > 0
      /\ wr' = Put(wr, data)
  BY <1>1 DEF DocInv, WriterType, Adds, OwnSize, HeaderSize
<1>3. Put(wr, data).currOffset = wr.currOffset + Len(data)
  BY <1>2, PutAtEnd
<1>. QED
  BY <1>2, <1>3

\* Every item keeps its bytes and its place; the new one is at its own.
LEMMA RecordingKeeps ==
  ASSUME DocInv, NEW w, NEW item, NEW data, Adds(w, item, data)
  PROVE  /\ \A p \in DOMAIN items : /\ OwnEnd(p)' = OwnEnd(p) /\ EndOf(p)' = EndOf(p)
                                   /\ Place(p)' = Place(p)
                                   /\ IsSession(p)' = IsSession(p)
                                   /\ wr'.bytes[at[p] + 1] = wr.bytes[at[p] + 1]
         /\ \A p \in Paths :
              /\ Last(p) > 1 => Elder(p) \in DOMAIN items
              /\ Len(p) > 1 => Front(p) \in DOMAIN items
              => Place(p)' = Place(p)
         /\ OwnEnd(w)' = wr'.currOffset
         /\ Tree' /\ Apart' /\ Placed' /\ Kept'
<1>. PICK c \in Nat : c = wr.currOffset
  BY HereIsFree
<1>1. /\ DOMAIN items' = DOMAIN items \union {w} /\ w \notin DOMAIN items /\ w \in Paths
      /\ items'[w] = item /\ at'[w] = c
      /\ \A p \in DOMAIN items : items'[p] = items[p] /\ at'[p] = at[p]
      /\ wr'.currOffset = c + Len(data) /\ Len(data) \in Nat \ {0}
      /\ \A i \in 1 .. c : wr'.bytes[i] = wr.bytes[i]
      /\ \A i \in 1 .. Len(data) : wr'.bytes[c + i] = data[i]
  <2>1. w \in Paths
    BY DEF Adds
  <2>2. DOMAIN items' = DOMAIN items \union {w} /\ w \notin DOMAIN items
    BY Recording, Zenon
  <2>3. items'[w] = item /\ at'[w] = wr.currOffset
    BY Recording, Zenon
  <2>4. \A p \in DOMAIN items : items'[p] = items[p] /\ at'[p] = at[p]
    BY Recording, Zenon
  <2>5. wr'.currOffset = wr.currOffset + Len(data) /\ Len(data) \in Nat \ {0}
    BY Recording, Zenon
  <2>6. \A i \in 1 .. wr.currOffset : wr'.bytes[i] = wr.bytes[i]
    BY Recording, Zenon
  <2>7. \A i \in 1 .. Len(data) : wr'.bytes[wr.currOffset + i] = data[i]
    <3>1. AtEnd(wr) /\ data \in Seq(Int) /\ wr' = Put(wr, data)
      BY DEF DocInv, WriterType, Adds
    <3>. QED
      BY <2>5, <3>1, PutAtEnd
  <2>. QED
    BY <2>1, <2>2, <2>3, <2>4, <2>5, <2>6, <2>7
<1>2. /\ w = wpath /\ item \in Seq(Int) /\ Len(data) = OwnSize(item) /\ (item = << >> \/ item = data)
  BY DEF Adds
<1>3. ASSUME NEW p \in DOMAIN items
      PROVE  /\ OwnEnd(p)' = OwnEnd(p) /\ EndOf(p)' = EndOf(p) /\ IsSession(p)' = IsSession(p)
             /\ wr'.bytes[at[p] + 1] = wr.bytes[at[p] + 1]
             /\ at[p] \in Nat /\ OwnEnd(p) \in Nat /\ OwnEnd(p) <= c
             /\ \A i \in 1 .. Len(items[p]) : at[p] + i \in 1 .. c
  <2>1. /\ items'[p] = items[p] /\ at'[p] = at[p] /\ at[p] \in Nat /\ OwnSize(items[p]) \in Nat \ {0}
        /\ OwnEnd(p) = at[p] + OwnSize(items[p]) /\ OwnEnd(p) <= c /\ items[p] \in Seq(Int)
    BY <1>1, ItemTypes DEF DocInv, Apart
  <2>2. at[p] + 1 \in 1 .. c
    BY <2>1
  <2>3. wr'.bytes[at[p] + 1] = wr.bytes[at[p] + 1]
    BY <1>1, <2>2
  <2>4. \A i \in 1 .. Len(items[p]) : at[p] + i \in 1 .. c
    <3>1. CASE items[p] = << >>
      BY <3>1
    <3>2. CASE items[p] # << >>
      BY <2>1, <3>2 DEF OwnSize
    <3>. QED
      BY <3>1, <3>2
  <2>5. IsSession(p)' = IsSession(p) /\ OwnEnd(p)' = OwnEnd(p)
    BY <2>1, Zenon DEF IsSession, OwnEnd
  <2>6. EndOf(p)' = EndOf(p)
    BY <2>1, <2>3, Zenon DEF EndOf, IsSession
  <2>. QED
    BY <2>1, <2>3, <2>4, <2>5, <2>6
<1>10. ASSUME NEW p \in Paths,
              Last(p) > 1 => Elder(p) \in DOMAIN items, Len(p) > 1 => Front(p) \in DOMAIN items
       PROVE  Place(p)' = Place(p)
  <2>2. Last(p) > 1 => EndOf(Elder(p))' = EndOf(Elder(p))
    <3>. DEFINE e == Elder(p)
    <3>1. Last(p) > 1 => e \in DOMAIN items
      BY <1>10
    <3>. HIDE DEF e
    <3>2. Last(p) > 1 => EndOf(e)' = EndOf(e)
      BY <1>3, <3>1
    <3>. QED
      BY <3>2 DEF e
  <2>3. Len(p) > 1 => at'[Front(p)] = at[Front(p)]
    BY <1>1, <1>10
  <2>. QED
    BY <2>2, <2>3, Zenon DEF Place
<1>4. ASSUME NEW p \in DOMAIN items \union {w}
      PROVE  /\ p \in Paths
             /\ Last(p) > 1 => Elder(p) \in DOMAIN items
             /\ Len(p) > 1 => Front(p) \in DOMAIN items /\ IsSession(Front(p))
             /\ Place(p)' = Place(p)
  <2>1. /\ p \in Paths
        /\ Last(p) > 1 => Elder(p) \in DOMAIN items
        /\ Len(p) > 1 => Front(p) \in DOMAIN items /\ IsSession(Front(p))
    <3>1. CASE p = w
      BY <1>1, <1>2, <3>1, HereIsFree
    <3>2. CASE p \in DOMAIN items
      BY <3>2, ItemTypes DEF DocInv, Tree, Exists
    <3>. QED
      BY <3>1, <3>2
  <2>. QED
    BY <1>10, <2>1
<1>5. OwnEnd(w)' = c + Len(data) /\ IsSession(w)' = (item = << >>)
  BY <1>1, <1>2, Zenon DEF OwnEnd, IsSession
<1>6. Tree'
  <2>1. ASSUME NEW p \in DOMAIN items'
        PROVE  /\ Len(p) > 1 => Front(p) \in DOMAIN items' /\ items'[Front(p)] = << >>
               /\ Last(p) > 1 => Elder(p) \in DOMAIN items'
    BY <1>1, <1>4 DEF IsSession
  <2>. QED
    BY <2>1, Zenon DEF Tree, Exists, IsSession
<1>7. Apart'
  <2>1. \A p \in DOMAIN items' : OwnEnd(p)' <= wr'.currOffset
    BY <1>1, <1>3, <1>5
  <2>2. ASSUME NEW p \in DOMAIN items', NEW q \in DOMAIN items', p # q
        PROVE  OwnEnd(p)' <= at'[q] \/ OwnEnd(q)' <= at'[p]
    <3>1. CASE p \in DOMAIN items /\ q \in DOMAIN items
      BY <1>1, <1>3, <2>2, <3>1 DEF DocInv, Apart
    <3>2. CASE p = w
      BY <1>1, <1>3, <2>2, <3>2
    <3>3. CASE q = w
      BY <1>1, <1>3, <2>2, <3>3
    <3>. QED
      BY <1>1, <3>1, <3>2, <3>3
  <2>. QED
    BY <2>1, <2>2, Zenon DEF Apart
<1>8. Placed'
  <2>1. ASSUME NEW p \in DOMAIN items' PROVE at'[p] = Place(p)'
    <3>1. CASE p \in DOMAIN items
      BY <1>1, <1>4, <3>1 DEF DocInv, Placed
    <3>2. CASE p = w
      BY <1>1, <1>2, <1>4, <3>2 DEF DocInv, NextPlace
    <3>. QED
      BY <1>1, <3>1, <3>2
  <2>. QED
    BY <2>1, Zenon DEF Placed
<1>9. Kept'
  <2>1. ASSUME NEW p \in DOMAIN items', NEW i \in 1 .. Len(items'[p])
        PROVE  wr'.bytes[at'[p] + i] = items'[p][i]
    <3>1. CASE p \in DOMAIN items
      <4>1. /\ items'[p] = items[p] /\ at'[p] = at[p] /\ i \in 1 .. Len(items[p])
            /\ at[p] + i \in 1 .. c
        BY <1>1, <1>3, <2>1, <3>1
      <4>2. wr.bytes[at[p] + i] = items[p][i]
        BY <3>1, <4>1 DEF DocInv, Kept
      <4>. QED
        BY <1>1, <4>1, <4>2
    <3>2. CASE p = w
      <4>1. items'[p] = item /\ at'[p] = c /\ i \in 1 .. Len(item)
        BY <1>1, <2>1, <3>2
      <4>2. item # << >>
        BY <4>1
      <4>3. item = data
        BY <1>2, <4>2
      <4>. QED
        BY <1>1, <4>1, <4>3
    <3>. QED
      BY <1>1, <3>1, <3>2
  <2>. QED
    BY <2>1, Zenon DEF Kept
<1>. QED
  BY <1>1, <1>3, <1>4, <1>5, <1>6, <1>7, <1>8, <1>9, <1>10

\* What is known of the closed sessions.
LEMMA RecordingCloses ==
  ASSUME DocInv, NEW w, NEW item, NEW data, Adds(w, item, data),
         \/ Opened' = Opened /\ item # << >>
         \/ Opened' = Opened \union {w}
  PROVE  Sized' /\ Filled'
<1>. PICK c \in Nat : c = wr.currOffset
  BY HereIsFree
<1>1. DOMAIN items' = DOMAIN items \union {w} /\ w \notin DOMAIN items
  BY Recording, Zenon
<1>2. items'[w] = item /\ at'[w] = c
  BY Recording, Zenon
<1>3. \A p \in DOMAIN items : items'[p] = items[p] /\ at'[p] = at[p]
  BY Recording, Zenon
<1>4. wr'.currOffset = c + Len(data) /\ Len(data) \in Nat \ {0}
  BY Recording, Zenon
<1>5. \A p \in DOMAIN items : /\ OwnEnd(p)' = OwnEnd(p) /\ EndOf(p)' = EndOf(p)
                               /\ IsSession(p)' = IsSession(p)
                               /\ wr'.bytes[at[p] + 1] = wr.bytes[at[p] + 1]
  BY RecordingKeeps, Zenon
<1>6. \A p \in Paths :
        /\ Last(p) > 1 => Elder(p) \in DOMAIN items
        /\ Len(p) > 1 => Front(p) \in DOMAIN items
        => Place(p)' = Place(p)
  BY RecordingKeeps, Zenon
<1>7. OwnEnd(w)' = wr'.currOffset
  BY RecordingKeeps, Zenon
<1>8. /\ w \in Paths /\ w = wpath /\ Len(data) = OwnSize(item) /\ (item = << >> \/ item = data)
      /\ Len(w) > 1 => Front(w) \in Opened
  BY HereIsFree DEF Adds
<1>9. ASSUME NEW p \in DOMAIN items' \ Opened'
      PROVE  /\ IsSession(p)' => wr'.bytes[at'[p] + 1] \in Nat
             /\ OwnEnd(p)' <= EndOf(p)' /\ EndOf(p)' <= wr'.currOffset
             /\ Len(p) > 1 /\ Front(p) \notin Opened' => EndOf(p)' <= EndOf(Front(p))'
  <2>1. CASE p \in DOMAIN items
    <3>1. /\ p \notin Opened /\ at'[p] = at[p] /\ OwnEnd(p)' = OwnEnd(p) /\ EndOf(p)' = EndOf(p)
          /\ IsSession(p)' = IsSession(p) /\ wr'.bytes[at[p] + 1] = wr.bytes[at[p] + 1]
          /\ OwnEnd(p) \in Nat
      BY <1>3, <1>5, <1>9, <2>1, ItemTypes DEF DocInv
    <3>2. /\ IsSession(p) => wr.bytes[at[p] + 1] \in Nat
          /\ OwnEnd(p) <= EndOf(p) /\ EndOf(p) <= c
          /\ Len(p) > 1 /\ Front(p) \notin Opened => EndOf(p) <= EndOf(Front(p))
      BY <2>1, <3>1 DEF DocInv, Sized
    <3>3. EndOf(p) \in Int
      <4>1. at[p] \in Nat /\ Len(items[p]) \in Nat
        BY <2>1, ItemTypes DEF DocInv
      <4>. QED
        BY <3>2, <4>1 DEF EndOf
    <3>4. Len(p) > 1 => EndOf(Front(p))' = EndOf(Front(p))
      <4>. DEFINE f == Front(p)
      <4>1. Len(p) > 1 => f \in DOMAIN items
        BY <2>1 DEF DocInv, Tree, Exists
      <4>. HIDE DEF f
      <4>2. Len(p) > 1 => EndOf(f)' = EndOf(f)
        BY <1>5, <4>1
      <4>. QED
        BY <4>2 DEF f
    <3>5. EndOf(p) <= wr'.currOffset
      BY <1>4, <3>2, <3>3
    <3>6. Front(p) \notin Opened' => Front(p) \notin Opened
      OBVIOUS
    <3>. QED
      BY <3>1, <3>2, <3>4, <3>5, <3>6
  <2>2. CASE p = w
    <3>1. Opened' = Opened /\ item # << >>
      BY <1>9, <2>2
    <3>2. EndOf(w)' = at'[w] + Len(items'[w])
      <4>1. ~(items'[w] = << >>)
        BY <1>2, <3>1
      <4>. QED
        BY <4>1, Zenon DEF EndOf, IsSession
    <3>3. EndOf(w)' = wr'.currOffset
      BY <1>2, <1>4, <1>8, <3>1, <3>2
    <3>4. ~IsSession(w)'
      BY <1>2, <3>1 DEF IsSession
    <3>. QED
      BY <1>4, <1>7, <1>8, <2>2, <3>1, <3>3, <3>4
  <2>. QED
    BY <1>1, <1>9, <2>1, <2>2
<1>10. ASSUME NEW q \in Paths,
              q \notin DOMAIN items', Last(q) > 1 => Elder(q) \in DOMAIN items', Len(q) > 1,
              Front(q) \in DOMAIN items', IsSession(Front(q))', Front(q) \notin Opened'
       PROVE  Place(q)' = EndOf(Front(q))'
  <2>1. Front(q) # w
    <3>1. CASE Front(q) = w
      <4>1. item # << >>
        BY <1>10, <3>1
      <4>2. IsSession(Front(q))' <=> items'[Front(q)] = << >>
        BY DEF IsSession
      <4>. QED
        BY <1>2, <1>10, <3>1, <4>1, <4>2
    <3>. QED
      BY <3>1
  <2>2. Front(q) \in DOMAIN items /\ Front(q) \notin Opened
    BY <1>1, <1>10, <2>1
  <2>3. Last(q) > 1 => Elder(q) \in DOMAIN items
    <3>1. CASE Last(q) > 1 /\ Elder(q) = w
      <4>1. Front(w) = Front(q) /\ Len(w) = Len(q)
        BY <3>1, ElderPath
      <4>. QED
        BY <1>8, <1>10, <2>2, <4>1
    <3>. QED
      BY <1>1, <1>10, <3>1
  <2>4. Place(q)' = Place(q)
    BY <1>6, <2>2, <2>3
  <2>5. EndOf(Front(q))' = EndOf(Front(q)) /\ IsSession(Front(q))
    <3>. DEFINE f == Front(q)
    <3>1. f \in DOMAIN items /\ IsSession(f)'
      BY <1>10, <2>2
    <3>. HIDE DEF f
    <3>2. EndOf(f)' = EndOf(f) /\ IsSession(f)
      BY <1>5, <3>1
    <3>. QED
      BY <3>2 DEF f
  <2>6. Place(q) = EndOf(Front(q))
    BY <1>1, <1>10, <2>2, <2>3, <2>5 DEF DocInv, Filled, Exists
  <2>. QED
    BY <2>4, <2>5, <2>6
<1>11. Sized'
  BY <1>9, Zenon DEF Sized
<1>12. Filled'
  BY <1>10, Zenon DEF Filled, Exists
<1>. QED
  BY <1>11, <1>12

LEMMA DocInit == Init => DocInv
<1>. SUFFICES ASSUME Init PROVE DocInv
  OBVIOUS
<1>1. /\ wr = NewWriter(<< >>) /\ wpath = << 1 >> /\ wopen = << >> /\ items = << >> /\ at = << >>
  BY DEF Init
<1>2. /\ wpath \in Paths /\ Len(wpath) = 1 /\ Last(wpath) = 1 /\ Len(wopen) = 0
      /\ DOMAIN items = {} /\ Front(wpath) \in Seq(Nat \ {0}) /\ Len(Front(wpath)) = 0
  <2>1. wpath \in Paths /\ Len(wpath) = 1 /\ wpath[1] = 1 /\ Len(wopen) = 0 /\ DOMAIN items = {}
    BY <1>1 DEF Paths
  <2>. QED
    BY <2>1, PathParts
<1>3. WriterType
  <2>1. AtEnd(wr)
    BY <1>1 DEF AtEnd, NewWriter, Writer
  <2>2. wopen \in Seq(Nat) /\ IsFiniteSet(DOMAIN items)
    BY <1>1, <1>2, FS_EmptySet
  <2>3. items \in [ DOMAIN items -> Seq(Int) ] /\ at \in [ DOMAIN items -> Nat ]
    BY <1>1, <1>2
  <2>. QED
    BY <1>2, <2>1, <2>2, <2>3 DEF WriterType
<1>4. Tree /\ Around /\ Apart /\ Placed /\ Kept /\ Sized
  BY <1>2 DEF Tree, Around, Apart, Placed, Kept, Sized
<1>5. Before
  <2>1. ASSUME NEW c \in Paths PROVE ~(Last(c) < Last(wpath))
    BY <1>2, PathParts
  <2>. QED
    BY <1>2, <2>1 DEF Before, Exists
<1>6. NextPlace
  BY <1>1, <1>2 DEF NextPlace, Place, NewWriter
<1>7. Filled
  BY <1>2 DEF Filled, Exists
<1>. QED
  BY <1>3, <1>4, <1>5, <1>6, <1>7 DEF DocInv

LEMMA FreshType ==
  ASSUME WriterType, NEW n \in Nat
  PROVE  Fresh(n) \in Seq(Int) /\ Len(Fresh(n)) = n
<1>1. Cardinality(DOMAIN items) \in Nat
  BY FS_CardinalityType DEF WriterType
<1>2. Fresh(n) \in [ 1 .. n -> Int ]
  BY <1>1 DEF Fresh
<1>. QED
  BY <1>2, FunctionIsSeq

LEMMA WriteValueKeeps == DocInv /\ (\E n \in ValueSizes : WriteValue(n)) => DocInv'
<1>. SUFFICES ASSUME DocInv, NEW n \in ValueSizes, WriteValue(n) PROVE DocInv'
  OBVIOUS
<1>. PICK w \in Paths : w = wpath
  BY HereIsFree
<1>. PICK item \in Seq(Int) : item = Fresh(n) /\ Len(item) = n /\ n \in Nat \ {0}
  BY FreshType, ValueSizesAssumption DEF DocInv
<1>1. Adds(w, item, item)
  BY DEF Adds, WriteValue, OwnSize
<1>2. wpath' = Sibling(w) /\ wopen' = wopen
  BY DEF WriteValue
<1>3. /\ DOMAIN items' = DOMAIN items \union {w} /\ w \notin DOMAIN items
  BY <1>1, Recording, Zenon
<1>4. items'[w] = item /\ at'[w] = wr.currOffset
  BY <1>1, Recording, Zenon
<1>5. \A p \in DOMAIN items : items'[p] = items[p] /\ at'[p] = at[p]
  BY <1>1, Recording, Zenon
<1>6. /\ Sibling(w) \in Paths /\ Front(Sibling(w)) = Front(w)
      /\ Last(Sibling(w)) = Last(w) + 1 /\ Len(Sibling(w)) = Len(w) /\ Elder(Sibling(w)) = w
      /\ \A k \in 0 .. Len(w) - 1 : Upto(Sibling(w), k) = Upto(w, k)
      /\ \A k \in 1 .. Len(w) - 1 : Sibling(w)[k] = w[k]
      /\ Last(w) \in Nat \ {0} /\ Len(w) \in Nat \ {0} /\ Len(wopen) = Len(w) - 1
  BY SiblingPath, PathParts, HereIsFree
<1>7. \A k \in 1 .. Len(wopen) : k \in 0 .. Len(w) - 1 /\ k - 1 \in 0 .. Len(w) - 1
                                 /\ k \in 1 .. Len(w) - 1 /\ k # Len(w)
  BY <1>6
<1>8. Opened' = Opened
  BY <1>2, <1>6, <1>7 DEF Opened
<1>9. Sized' /\ Filled'
  <2>1. item # << >>
    OBVIOUS
  <2>. QED
    BY <1>1, <1>8, <2>1, RecordingCloses, Zenon
<1>10. Tree' /\ Apart' /\ Placed' /\ Kept'
  BY <1>1, RecordingKeeps, Zenon
<1>11. WriterType'
  <2>1. /\ items' \in [ DOMAIN items' -> Seq(Int) ] /\ at' \in [ DOMAIN items' -> Nat ]
    BY <1>1, Recording, Zenon
  <2>2. DOMAIN items' \subseteq Paths /\ IsFiniteSet(DOMAIN items')
    BY <1>1, Recording, Zenon
  <2>3. AtEnd(wr)'
    BY <1>1, Recording, Zenon
  <2>4. wpath' \in Paths /\ wopen' \in Seq(Nat) /\ Len(wpath') = Len(wopen') + 1
    BY <1>2, <1>6 DEF DocInv, WriterType
  <2>. QED
    BY <2>1, <2>2, <2>3, <2>4, Zenon DEF WriterType
<1>12. Around'
  <2>1. ASSUME NEW k \in 1 .. Len(wopen)
        PROVE  /\ Upto(wpath', k) \in DOMAIN items' /\ items'[Upto(wpath', k)] = << >>
               /\ wopen'[k] = at'[Upto(wpath', k)]
    <3>1. Upto(wpath', k) = Upto(w, k)
      BY <1>2, <1>6, <1>7
    <3>2. /\ Upto(w, k) \in DOMAIN items /\ items[Upto(w, k)] = << >>
          /\ wopen[k] = at[Upto(w, k)]
      BY DEF DocInv, Around, Exists, IsSession
    <3>. QED
      BY <1>2, <1>3, <1>5, <3>1, <3>2
  <2>. QED
    BY <1>2, <2>1, Zenon DEF Around, Exists, IsSession
<1>13. Before'
  <2>1. ASSUME NEW k \in 1 .. Len(wopen), NEW d \in Paths,
               Len(d) = k, Front(d) = Upto(wpath', k - 1)
        PROVE  d \in DOMAIN items' <=> Last(d) <= wpath'[k]
    <3>1. wpath'[k] = w[k] /\ Front(d) = Upto(w, k - 1) /\ d # w
      BY <1>2, <1>6, <1>7, <2>1
    <3>2. d \in DOMAIN items <=> Last(d) <= w[k]
      BY <2>1, <3>1 DEF DocInv, Before, Exists
    <3>. QED
      BY <1>3, <3>1, <3>2
  <2>2. ASSUME NEW d \in Paths, Front(d) = Front(wpath')
        PROVE  d \in DOMAIN items' <=> Last(d) < Last(wpath')
    <3>1. /\ Front(d) = Front(w) /\ Last(wpath') = Last(w) + 1
          /\ Last(d) \in Nat
      BY <1>2, <1>6, <2>2, PathParts
    <3>2. d \in DOMAIN items <=> Last(d) < Last(w)
      BY <3>1 DEF DocInv, Before, Exists
    <3>3. d = w <=> Last(d) = Last(w)
      BY <3>1, SamePath
    <3>. QED
      BY <1>3, <1>6, <3>1, <3>2, <3>3
  <2>. QED
    BY <1>2, <2>1, <2>2, Zenon DEF Before, Exists
<1>14. NextPlace'
  <2>1. EndOf(w)' = at'[w] + Len(items'[w])
    <3>1. ~(items'[w] = << >>)
      BY <1>4
    <3>. QED
      BY <3>1, Zenon DEF EndOf, IsSession
  <2>2. wr'.currOffset = wr.currOffset + Len(item)
    BY <1>1, Advances
  <2>. DEFINE q == Sibling(w)
  <2>3. q \in Paths /\ Last(q) > 1 /\ Elder(q) = w /\ wpath' = q
    BY <1>2, <1>6
  <2>. HIDE DEF q
  <2>4. Place(wpath)' = EndOf(Elder(q))'
    BY <2>3, Zenon DEF Place
  <2>5. EndOf(Elder(q))' = EndOf(w)'
    BY <2>3
  <2>. QED
    BY <1>4, <2>1, <2>2, <2>4, <2>5 DEF NextPlace
<1>. QED
  BY <1>9, <1>10, <1>11, <1>12, <1>13, <1>14, Zenon DEF DocInv

LEMMA OpenWriteKeeps == DocInv /\ OpenWrite => DocInv'
<1>. SUFFICES ASSUME DocInv, OpenWrite PROVE DocInv'
  OBVIOUS
<1>. PICK w \in Paths : w = wpath
  BY HereIsFree
<1>. DEFINE data == Header(0)
<1>0. data \in Seq(Int) /\ Len(data) = HeaderSize
  BY DEF Header, HeaderSize
<1>. HIDE DEF data
<1>1. Adds(w, << >>, data)
  <2>1. wr' = Put(wr, data) /\ Record(<< >>)
    BY DEF OpenWrite, data
  <2>2. << >> \in Seq(Int) /\ OwnSize(<< >>) = HeaderSize
    BY DEF OwnSize
  <2>. QED
    BY <1>0, <2>1, <2>2, Zenon DEF Adds
<1>2. wpath' = Child(w) /\ wopen' = Append(wopen, wr.currOffset)
  BY DEF OpenWrite, GetWritePos
<1>3. /\ DOMAIN items' = DOMAIN items \union {w} /\ w \notin DOMAIN items
  BY <1>1, Recording, Zenon
<1>4. items'[w] = << >> /\ at'[w] = wr.currOffset
  BY <1>1, Recording, Zenon
<1>5. \A p \in DOMAIN items : items'[p] = items[p] /\ at'[p] = at[p]
  BY <1>1, Recording, Zenon
<1>6. /\ Child(w) \in Paths /\ Front(Child(w)) = w /\ Last(Child(w)) = 1
      /\ Len(Child(w)) = Len(w) + 1
      /\ \A k \in 0 .. Len(w) : Upto(Child(w), k) = Upto(w, k)
      /\ \A k \in 1 .. Len(w) : Child(w)[k] = w[k]
      /\ Last(w) \in Nat \ {0} /\ Last(w) = w[Len(w)] /\ Len(w) \in Nat \ {0}
      /\ Len(wopen) = Len(w) - 1 /\ Upto(w, Len(w)) = w /\ Front(w) = Upto(w, Len(w) - 1)
      /\ wr.currOffset \in Nat
  BY ChildPath, PathParts, HereIsFree
<1>7. /\ wopen' \in Seq(Nat) /\ Len(wopen') = Len(w) /\ wopen'[Len(w)] = wr.currOffset
      /\ \A k \in 1 .. Len(wopen) : wopen'[k] = wopen[k]
  <2>1. wopen \in Seq(Nat)
    BY DEF DocInv, WriterType
  <2>2. Len(wopen) + 1 = Len(w)
    BY <1>6
  <2>. QED
    BY <1>2, <1>6, <2>1, <2>2, AppendProperties
<1>8. \A k \in 1 .. Len(w) : /\ k \in 0 .. Len(w) /\ k - 1 \in 0 .. Len(w)
                            /\ k # Len(w) => k \in 1 .. Len(wopen)
  BY <1>6
<1>9. Opened' = Opened \union {w}
  <2>1. \A k \in 1 .. Len(wopen) : k \in 1 .. Len(w)
    BY <1>6
  <2>2. Opened' = { Upto(w, k) : k \in 1 .. Len(w) }
    BY <1>2, <1>6, <1>7, <1>8 DEF Opened
  <2>3. Opened = { Upto(w, k) : k \in 1 .. Len(wopen) }
    BY DEF Opened
  <2>4. Len(w) \in 1 .. Len(w)
    BY <1>6
  <2>. QED
    BY <1>6, <1>8, <2>1, <2>2, <2>3, <2>4
<1>10. Sized' /\ Filled'
  BY <1>1, <1>9, RecordingCloses, Zenon
<1>11. Tree' /\ Apart' /\ Placed' /\ Kept'
  BY <1>1, RecordingKeeps, Zenon
<1>12. WriterType'
  <2>1. /\ items' \in [ DOMAIN items' -> Seq(Int) ] /\ at' \in [ DOMAIN items' -> Nat ]
    BY <1>1, Recording, Zenon
  <2>2. DOMAIN items' \subseteq Paths /\ IsFiniteSet(DOMAIN items')
    BY <1>1, Recording, Zenon
  <2>3. AtEnd(wr)'
    BY <1>1, Recording, Zenon
  <2>4. wpath' \in Paths /\ wopen' \in Seq(Nat) /\ Len(wpath') = Len(wopen') + 1
    BY <1>2, <1>6, <1>7
  <2>. QED
    BY <2>1, <2>2, <2>3, <2>4, Zenon DEF WriterType
<1>13. Around'
  <2>1. ASSUME NEW k \in 1 .. Len(w)
        PROVE  /\ Upto(wpath', k) \in DOMAIN items' /\ items'[Upto(wpath', k)] = << >>
               /\ wopen'[k] = at'[Upto(wpath', k)]
    <3>1. Upto(wpath', k) = Upto(w, k)
      BY <1>2, <1>6, <1>8
    <3>2. CASE k = Len(w)
      BY <1>3, <1>4, <1>6, <1>7, <3>1, <3>2
    <3>3. CASE k # Len(w)
      <4>1. /\ Upto(w, k) \in DOMAIN items /\ items[Upto(w, k)] = << >>
            /\ wopen[k] = at[Upto(w, k)] /\ k \in 1 .. Len(wopen)
        BY <1>8, <3>3 DEF DocInv, Around, Exists, IsSession
      <4>. QED
        BY <1>3, <1>5, <1>7, <3>1, <4>1
    <3>. QED
      BY <3>2, <3>3
  <2>. QED
    BY <1>7, <2>1, Zenon DEF Around, Exists, IsSession
<1>14. Before'
  <2>1. ASSUME NEW k \in 1 .. Len(w), NEW d \in Paths,
               Len(d) = k, Front(d) = Upto(wpath', k - 1)
        PROVE  d \in DOMAIN items' <=> Last(d) <= wpath'[k]
    <3>1. wpath'[k] = w[k] /\ Front(d) = Upto(w, k - 1)
      BY <1>2, <1>6, <1>8, <2>1
    <3>2. CASE k # Len(w)
      <4>1. d \in DOMAIN items <=> Last(d) <= w[k]
        BY <1>8, <2>1, <3>1, <3>2 DEF DocInv, Before, Exists
      <4>2. d # w
        BY <2>1, <3>2
      <4>. QED
        BY <1>3, <3>1, <4>1, <4>2
    <3>3. CASE k = Len(w)
      <4>1. Front(d) = Front(w) /\ wpath'[k] = Last(w) /\ Last(d) \in Nat
        BY <1>6, <3>1, <3>3, PathParts
      <4>2. d \in DOMAIN items <=> Last(d) < Last(w)
        BY <4>1 DEF DocInv, Before, Exists
      <4>3. d = w <=> Last(d) = Last(w)
        BY <4>1, SamePath
      <4>. QED
        BY <1>3, <1>6, <4>1, <4>2, <4>3
    <3>. QED
      BY <3>2, <3>3
  <2>2. ASSUME NEW d \in Paths, Front(d) = Front(wpath')
        PROVE  d \in DOMAIN items' <=> Last(d) < Last(wpath')
    <3>1. Front(d) = w /\ Last(wpath') = 1 /\ Last(d) \in Nat \ {0} /\ Len(d) - 1 = Len(w)
          /\ Len(d) \in Nat
      BY <1>2, <1>6, <2>2, PathParts
    <3>2. d # w
      BY <3>1
    <3>3. d \notin DOMAIN items
      <4>1. Len(d) > 1
        BY <1>6, <3>1
      <4>. QED
        BY <1>3, <3>1, <4>1 DEF DocInv, Tree, Exists
    <3>. QED
      BY <1>3, <3>1, <3>2, <3>3
  <2>. QED
    BY <1>7, <2>1, <2>2, Zenon DEF Before, Exists
<1>15. NextPlace'
  <2>1. wr'.currOffset = wr.currOffset + Len(data)
    BY <1>1, Advances
  <2>. DEFINE q == Child(w)
  <2>2. q \in Paths /\ ~(Last(q) > 1) /\ Len(q) > 1 /\ Front(q) = w /\ wpath' = q
    BY <1>2, <1>6
  <2>. HIDE DEF q
  <2>3. Place(wpath)' = at'[w] + HeaderSize
    BY <2>2, Zenon DEF Place
  <2>. QED
    BY <1>0, <1>4, <2>1, <2>3 DEF NextPlace
<1>. QED
  BY <1>10, <1>11, <1>12, <1>13, <1>14, <1>15, Zenon DEF DocInv

LEMMA BesideAHeader ==
  ASSUME NEW a \in Nat, NEW b \in Nat, NEW c \in Nat, NEW z \in Nat, NEW i \in 1 .. z,
         a + z <= c, a + z <= b \/ b + 4 <= a
  PROVE  a + i \in 1 .. c /\ a + i \notin b + 1 .. b + 4
<1>1. i \in Nat /\ 1 <= i /\ i <= z
  OBVIOUS
<1>2. a + i \in 1 .. c
  BY <1>1
<1>3. CASE a + z <= b
  BY <1>1, <1>3
<1>4. CASE b + 4 <= a
  BY <1>1, <1>4
<1>. QED
  BY <1>2, <1>3, <1>4

LEMMA CloseWriteKeeps == DocInv /\ CloseWrite => DocInv'
<1>. SUFFICES ASSUME DocInv, CloseWrite PROVE DocInv'
  OBVIOUS
<1>. PICK w \in Paths : w = wpath
  BY HereIsFree
<1>. PICK c \in Nat : c = wr.currOffset
  BY HereIsFree
<1>. PICK n \in Nat : n = Len(wopen)
  BY DEF DocInv, WriterType
<1>1. /\ n > 0 /\ Len(w) = n + 1 /\ Len(w) > 1 /\ wopen \in Seq(Nat)
      /\ wopen' = Front(wopen) /\ wr' = PatchHeader(wr, Last(wopen))
      /\ items' = items /\ at' = at /\ wpath' = Sibling(Front(w))
  BY DEF DocInv, WriterType, CloseWrite
<1>. PICK s \in Paths : s = Front(w)
  BY <1>1, PathParts
\* The innermost open session, and its siblings.
<1>2. /\ s \in DOMAIN items /\ items[s] = << >> /\ s \in Opened /\ Last(wopen) = at[s]
      /\ Len(s) = n /\ s = Upto(w, n)
  <2>1. Last(wopen) = wopen[n]
    BY DEF Last
  <2>2. Len(s) = Len(w) - 1 /\ s = Upto(w, Len(w) - 1) /\ Len(w) - 1 = n
    <3>1. Len(Front(w)) = Len(w) - 1 /\ Front(w) = Upto(w, Len(w) - 1)
      BY PathParts
    <3>2. Len(w) - 1 = n
      BY <1>1
    <3>. QED
      BY <3>1, <3>2
  <2>. QED
    BY <1>1, <2>1, <2>2, HereIsFree DEF IsSession
<1>3. /\ at[s] \in Nat /\ at[s] + HeaderSize <= c /\ OwnEnd(s) = at[s] + HeaderSize
      /\ at[s] \in Int /\ HeaderSize = 4
  BY <1>2, ItemTypes DEF OwnSize, DocInv, Apart, HeaderSize
<1>4. /\ AtEnd(PatchHeader(wr, at[s])) /\ PatchHeader(wr, at[s]).currOffset = c
      /\ PatchHeader(wr, at[s]).bytes[at[s] + 1] = c - at[s]
      /\ \A i \in 1 .. c : i \notin at[s] + 1 .. at[s] + HeaderSize =>
           PatchHeader(wr, at[s]).bytes[i] = wr.bytes[i]
  <2>1. AtEnd(wr)
    BY DEF DocInv, WriterType
  <2>. QED
    BY <1>3, <2>1, Patched
<1>5. /\ AtEnd(wr)' /\ wr'.currOffset = c /\ wr'.bytes[at[s] + 1] = c - at[s]
      /\ \A i \in 1 .. c : i \notin at[s] + 1 .. at[s] + HeaderSize => wr'.bytes[i] = wr.bytes[i]
  BY <1>1, <1>2, <1>4 DEF AtEnd
<1>6. ASSUME NEW p \in DOMAIN items
      PROVE  /\ OwnEnd(p)' = OwnEnd(p) /\ IsSession(p)' = IsSession(p)
             /\ at[p] \in Nat /\ OwnEnd(p) \in Nat /\ OwnEnd(p) <= c /\ p \in Paths
             /\ \A i \in 1 .. Len(items[p]) : wr'.bytes[at[p] + i] = wr.bytes[at[p] + i]
             /\ p # s => EndOf(p)' = EndOf(p) /\ wr'.bytes[at[p] + 1] = wr.bytes[at[p] + 1]
  <2>1. /\ at[p] \in Nat /\ OwnSize(items[p]) \in Nat \ {0} /\ OwnEnd(p) = at[p] + OwnSize(items[p])
        /\ OwnEnd(p) <= c
        /\ p # s => OwnEnd(p) <= at[s] \/ OwnEnd(s) <= at[p]
    BY <1>2, ItemTypes DEF DocInv, Apart
  <2>2. OwnEnd(p)' = OwnEnd(p) /\ IsSession(p)' = IsSession(p)
    BY <1>1, Zenon DEF OwnEnd, IsSession
  <2>3. ASSUME p # s, NEW i \in 1 .. OwnSize(items[p])
        PROVE  wr'.bytes[at[p] + i] = wr.bytes[at[p] + i]
    <3>1. at[p] + i \in 1 .. c /\ at[p] + i \notin at[s] + 1 .. at[s] + HeaderSize
      <4>. PICK a \in Nat : a = at[p]
        BY <2>1
      <4>. PICK b \in Nat : b = at[s]
        BY <1>3
      <4>. PICK z \in Nat : z = OwnSize(items[p])
        BY <2>1
      <4>1. a + z <= c /\ i \in 1 .. z /\ (a + z <= b \/ b + 4 <= a) /\ HeaderSize = 4
        BY <1>3, <2>1, <2>3
      <4>2. a + i \in 1 .. c /\ a + i \notin b + 1 .. b + 4
        BY <4>1, BesideAHeader
      <4>. QED
        BY <4>1, <4>2
    <3>. QED
      BY <1>5, <3>1
  <2>4. \A i \in 1 .. Len(items[p]) : wr'.bytes[at[p] + i] = wr.bytes[at[p] + i]
    <3>1. CASE p = s
      BY <1>2, <3>1
    <3>2. CASE p # s
      <4>1. items[p] # << >> => Len(items[p]) = OwnSize(items[p])
        BY DEF OwnSize
      <4>. QED
        BY <2>3, <3>2, <4>1
    <3>. QED
      BY <3>1, <3>2
  <2>5. p # s => wr'.bytes[at[p] + 1] = wr.bytes[at[p] + 1]
    <3>1. 1 \in 1 .. OwnSize(items[p])
      BY <2>1
    <3>. QED
      BY <2>3, <3>1
  <2>6. p # s => EndOf(p)' = EndOf(p)
    BY <1>1, <2>5, Zenon DEF EndOf, IsSession
  <2>7. OwnEnd(p) \in Nat /\ p \in Paths
    BY ItemTypes DEF DocInv
  <2>. QED
    BY <2>1, <2>2, <2>4, <2>5, <2>6, <2>7
\* The session ends where the writer is.
<1>7. EndOf(s)' = c
  <2>1. EndOf(s)' = at[s] + (c - at[s])
    <3>1. items'[s] = << >> /\ wr'.bytes[at'[s] + 1] = c - at[s] /\ at'[s] = at[s]
      BY <1>1, <1>2, <1>5
    <3>. QED
      BY <3>1, Zenon DEF EndOf, IsSession
  <2>. QED
    BY <1>3, <2>1
<1>8. /\ Sibling(s) \in Paths /\ Front(Sibling(s)) = Front(s)
      /\ Last(Sibling(s)) = Last(s) + 1 /\ Len(Sibling(s)) = n /\ Elder(Sibling(s)) = s
      /\ \A k \in 0 .. n - 1 : Upto(Sibling(s), k) = Upto(w, k)
      /\ \A k \in 1 .. n - 1 : Sibling(s)[k] = w[k]
      /\ Last(s) \in Nat \ {0} /\ Last(s) = w[n] /\ Front(s) = Upto(w, n - 1)
  <2>1. /\ Sibling(s) \in Paths /\ Front(Sibling(s)) = Front(s)
        /\ Last(Sibling(s)) = Last(s) + 1 /\ Len(Sibling(s)) = n /\ Elder(Sibling(s)) = s
        /\ \A k \in 0 .. n - 1 : Upto(Sibling(s), k) = Upto(s, k)
        /\ \A k \in 1 .. n - 1 : Sibling(s)[k] = s[k]
        /\ Last(s) \in Nat \ {0} /\ Last(s) = s[n] /\ Front(s) = Upto(s, n - 1)
    BY <1>2, SiblingPath, PathParts
  <2>2. \A k \in 0 .. Len(w) - 1 : Upto(s, k) = Upto(w, k)
    BY UptoFront
  <2>3. \A k \in 1 .. Len(w) - 1 : s[k] = w[k]
    BY UptoFront
  <2>4. Len(w) - 1 = n /\ n - 1 \in 0 .. n - 1
    BY <1>1
  <2>5. /\ \A k \in 0 .. n - 1 : k \in 0 .. n /\ \A j \in 1 .. n - 1 : j \in 1 .. n
        /\ n \in 1 .. n /\ n - 1 \in 0 .. n
    BY <1>1
  <2>. QED
    BY <2>1, <2>2, <2>3, <2>4, <2>5
<1>9. /\ wopen' \in Seq(Nat) /\ Len(wopen') = n - 1
      /\ \A k \in 1 .. n - 1 : wopen'[k] = wopen[k]
  <2>1. wopen' = SubSeq(wopen, 1, n - 1)
    BY <1>1 DEF Front
  <2>2. \A i \in 1 .. n - 1 : i \in 1 .. Len(wopen) /\ wopen[i] \in Nat
    BY <1>1
  <2>3. n - 1 \in Int /\ 1 \in Int
    OBVIOUS
  <2>4. /\ SubSeq(wopen, 1, n - 1) \in Seq(Nat)
        /\ Len(SubSeq(wopen, 1, n - 1)) = IF 1 <= n - 1 THEN n - 1 - 1 + 1 ELSE 0
        /\ \A i \in 1 .. n - 1 - 1 + 1 : SubSeq(wopen, 1, n - 1)[i] = wopen[1 + i - 1]
    BY <2>2, <2>3, SubSeqProperties
  <2>. QED
    BY <1>1, <2>1, <2>4
<1>10. Opened' = { Upto(w, k) : k \in 1 .. n - 1 } /\ Opened = { Upto(w, k) : k \in 1 .. n }
  <2>1. \A k \in 1 .. n - 1 : k \in 0 .. n - 1
    OBVIOUS
  <2>. QED
    BY <1>1, <1>8, <1>9, <2>1, SMTT(30) DEF Opened
<1>11. Opened = Opened' \union {s} /\ s \notin Opened'
  <2>1. \A k \in 1 .. n - 1 : Len(Upto(w, k)) = k /\ k # n
    <3>1. \A k \in 1 .. n - 1 : k \in 1 .. Len(w)
      BY <1>1
    <3>. QED
      BY <3>1, UptoPath
  <2>2. \A k : k \in 1 .. n <=> k \in 1 .. n - 1 \/ k = n
    BY <1>1
  <2>. QED
    BY <1>2, <1>10, <2>1, <2>2
<1>12. n > 1 => Front(s) \in Opened'
  <2>1. n > 1 => n - 1 \in 1 .. n - 1
    OBVIOUS
  <2>. QED
    BY <1>8, <1>10, <2>1
\* Nothing else starts where it started: what starts behind the session does
\* not exist yet.
<1>13. ASSUME NEW p \in Paths,
              Last(p) > 1 => Elder(p) \in DOMAIN items /\ Elder(p) # s
       PROVE  Place(p)' = Place(p)
  <2>. DEFINE e == Elder(p)
  <2>1. Last(p) > 1 => e \in DOMAIN items /\ e # s
    BY <1>13
  <2>. HIDE DEF e
  <2>2. Last(p) > 1 => EndOf(e)' = EndOf(e)
    BY <1>6, <2>1
  <2>. QED
    BY <1>1, <2>2, Zenon DEF Place, e
<1>14. ASSUME NEW p \in Paths, Last(p) > 1, Elder(p) = s
       PROVE  Len(p) = n /\ Front(p) = Front(s) /\ p \notin DOMAIN items
  <2>1. Front(p) = Front(s) /\ Len(p) = n /\ Last(s) = Last(p) - 1 /\ Last(p) \in Nat
    BY <1>2, <1>14, ElderPath, PathParts
  <2>2. n \in 1 .. Len(wopen)
    BY <1>1
  <2>3. p \in DOMAIN items <=> Last(p) <= w[n]
    BY <1>8, <2>1, <2>2 DEF DocInv, Before, Exists
  <2>. QED
    BY <1>8, <2>1, <2>3
<1>15. WriterType'
  <2>1. wpath' \in Paths /\ wopen' \in Seq(Nat) /\ Len(wpath') = Len(wopen') + 1
    BY <1>1, <1>8, <1>9
  <2>2. /\ DOMAIN items' \subseteq Paths /\ IsFiniteSet(DOMAIN items')
        /\ items' \in [ DOMAIN items' -> Seq(Int) ] /\ at' \in [ DOMAIN items' -> Nat ]
    BY <1>1 DEF DocInv, WriterType
  <2>. QED
    BY <1>5, <2>1, <2>2, Zenon DEF WriterType
<1>16. Tree'
  BY <1>1 DEF DocInv, Tree, Exists, IsSession
<1>17. Around'
  <2>1. ASSUME NEW k \in 1 .. n - 1
        PROVE  /\ Upto(wpath', k) \in DOMAIN items /\ items[Upto(wpath', k)] = << >>
               /\ wopen'[k] = at[Upto(wpath', k)]
    <3>1. k \in 0 .. n - 1 /\ k \in 1 .. n
      OBVIOUS
    <3>2. Upto(wpath', k) = Upto(w, k)
      BY <1>1, <1>8, <3>1
    <3>3. /\ Upto(w, k) \in DOMAIN items /\ items[Upto(w, k)] = << >>
          /\ wopen[k] = at[Upto(w, k)]
      BY <3>1 DEF DocInv, Around, Exists, IsSession
    <3>. QED
      BY <1>9, <3>2, <3>3
  <2>. QED
    BY <1>1, <1>9, <2>1, Zenon DEF Around, Exists, IsSession
<1>18. Before'
  <2>1. ASSUME NEW k \in 1 .. n - 1, NEW d \in Paths,
               Len(d) = k, Front(d) = Upto(wpath', k - 1)
        PROVE  d \in DOMAIN items <=> Last(d) <= wpath'[k]
    <3>1. k - 1 \in 0 .. n - 1 /\ k \in 1 .. n
      OBVIOUS
    <3>2. wpath'[k] = w[k] /\ Front(d) = Upto(w, k - 1)
      BY <1>1, <1>8, <2>1, <3>1
    <3>. QED
      BY <2>1, <3>1, <3>2 DEF DocInv, Before, Exists
  <2>2. ASSUME NEW d \in Paths, Front(d) = Front(wpath')
        PROVE  d \in DOMAIN items <=> Last(d) < Last(wpath')
    <3>1. /\ Front(d) = Upto(w, n - 1) /\ Last(wpath') = Last(s) + 1
          /\ Last(d) \in Nat /\ Len(d) = n
      <4>1. Front(d) = Front(s) /\ Len(Front(d)) = Len(d) - 1 /\ Len(Front(s)) = Len(s) - 1
            /\ Len(d) \in Nat /\ Last(d) \in Nat
        BY <1>1, <1>8, <2>2, PathParts
      <4>. QED
        BY <1>1, <1>2, <1>8, <4>1
    <3>2. n \in 1 .. Len(wopen)
      BY <1>1
    <3>3. d \in DOMAIN items <=> Last(d) <= w[n]
      BY <3>1, <3>2 DEF DocInv, Before, Exists
    <3>. QED
      BY <1>8, <3>1, <3>3
  <2>. QED
    BY <1>1, <1>9, <2>1, <2>2, Zenon DEF Before, Exists
<1>19. Apart'
  <2>1. \A p \in DOMAIN items' : OwnEnd(p)' <= wr'.currOffset
    BY <1>1, <1>5, <1>6
  <2>2. \A p, q \in DOMAIN items' : p # q => OwnEnd(p)' <= at'[q] \/ OwnEnd(q)' <= at'[p]
    BY <1>1, <1>6 DEF DocInv, Apart
  <2>. QED
    BY <2>1, <2>2, Zenon DEF Apart
<1>20. Placed'
  <2>1. ASSUME NEW p \in DOMAIN items PROVE at[p] = Place(p)'
    <3>1. p \in Paths /\ (Last(p) > 1 => Elder(p) \in DOMAIN items)
      BY <1>6 DEF DocInv, Tree, Exists
    <3>2. Last(p) > 1 => Elder(p) # s
      BY <1>14, <3>1
    <3>3. Place(p)' = Place(p)
      BY <1>13, <3>1, <3>2
    <3>. QED
      BY <3>3 DEF DocInv, Placed
  <2>. QED
    BY <1>1, <2>1, Zenon DEF Placed
<1>21. NextPlace'
  <2>. DEFINE q == Sibling(s)
  <2>1. q \in Paths /\ Last(q) > 1 /\ Elder(q) = s /\ wpath' = q
    BY <1>1, <1>8
  <2>. HIDE DEF q
  <2>2. Place(wpath)' = EndOf(Elder(q))'
    BY <2>1, Zenon DEF Place
  <2>3. EndOf(Elder(q))' = EndOf(s)'
    BY <2>1
  <2>. QED
    BY <1>5, <1>7, <2>2, <2>3 DEF NextPlace
<1>22. Kept'
  BY <1>1, <1>6 DEF DocInv, Kept
<1>23. Sized'
  <2>1. ASSUME NEW p \in DOMAIN items \ Opened'
        PROVE  /\ IsSession(p)' => wr'.bytes[at[p] + 1] \in Nat
               /\ OwnEnd(p)' <= EndOf(p)' /\ EndOf(p)' <= c
               /\ Len(p) > 1 /\ Front(p) \notin Opened' => EndOf(p)' <= EndOf(Front(p))'
    <3>1. CASE p = s
      <4>1. Len(p) > 1 => Front(p) \in Opened'
        BY <1>2, <1>12, <3>1
      <4>2. c - at[s] \in Nat
        BY <1>3
      <4>. QED
        BY <1>3, <1>5, <1>6, <1>7, <3>1, <4>1, <4>2
    <3>2. CASE p # s
      <4>1. p \notin Opened
        BY <1>11, <3>2
      <4>2. /\ IsSession(p) => wr.bytes[at[p] + 1] \in Nat
            /\ OwnEnd(p) <= EndOf(p) /\ EndOf(p) <= c
            /\ Len(p) > 1 /\ Front(p) \notin Opened => EndOf(p) <= EndOf(Front(p))
        BY <4>1 DEF DocInv, Sized
      <4>3. EndOf(p)' = EndOf(p) /\ wr'.bytes[at[p] + 1] = wr.bytes[at[p] + 1]
            /\ OwnEnd(p)' = OwnEnd(p) /\ IsSession(p)' = IsSession(p)
        BY <1>6, <3>2
      <4>4. ASSUME Len(p) > 1, Front(p) \notin Opened' PROVE EndOf(p)' <= EndOf(Front(p))'
        <5>. DEFINE f == Front(p)
        <5>1. f \in DOMAIN items /\ f \notin Opened' /\ (f # s => EndOf(p) <= EndOf(f))
          BY <1>11, <4>2, <4>4 DEF DocInv, Tree, Exists
        <5>. HIDE DEF f
        <5>2. EndOf(p)' <= EndOf(f)'
          BY <1>6, <1>7, <4>2, <4>3, <5>1
        <5>. QED
          BY <5>2 DEF f
      <4>. QED
        BY <4>2, <4>3, <4>4
    <3>. QED
      BY <3>1, <3>2
  <2>. QED
    BY <1>1, <1>5, <2>1, Zenon DEF Sized
<1>24. Filled'
  <2>1. ASSUME NEW q \in Paths,
               q \notin DOMAIN items, Last(q) > 1 => Elder(q) \in DOMAIN items, Len(q) > 1,
               Front(q) \in DOMAIN items, items[Front(q)] = << >>, Front(q) \notin Opened'
        PROVE  Place(q)' = EndOf(Front(q))'
    <3>1. Last(q) > 1 => Elder(q) # s
      <4>1. Last(q) > 1 /\ Elder(q) = s => Len(q) = n /\ Front(q) = Front(s)
        BY <1>14
      <4>. QED
        BY <1>12, <2>1, <4>1
    <3>2. Place(q)' = Place(q)
      BY <1>13, <2>1, <3>1
    <3>3. CASE Front(q) # s
      <4>. DEFINE f == Front(q)
      <4>1. f \in DOMAIN items /\ f # s /\ f \notin Opened
        BY <1>11, <2>1, <3>3
      <4>2. Place(q) = EndOf(f)
        BY <2>1, <4>1 DEF DocInv, Filled, Exists, IsSession
      <4>. HIDE DEF f
      <4>3. EndOf(f)' = EndOf(f)
        BY <1>6, <4>1
      <4>. QED
        BY <3>2, <4>2, <4>3 DEF f
    <3>4. CASE Front(q) = s
      \* The next item of the session is where the writer is.
      <4>1. q = w
        <5>1. Front(q) = Front(w) /\ Last(q) \in Nat \ {0} /\ Last(w) \in Nat
          BY <3>4, PathParts
        <5>2. ~(Last(q) < Last(w))
          BY <2>1, <5>1 DEF DocInv, Before, Exists
        <5>3. CASE Last(q) > Last(w)
          <6>1. Last(q) > 1
            BY <5>1, <5>3, PathParts
          <6>2. /\ Elder(q) \in Paths /\ Front(Elder(q)) = Front(w) /\ Last(Elder(q)) = Last(q) - 1
                /\ Elder(q) \in DOMAIN items
            BY <2>1, <5>1, <6>1, ElderPath
          <6>3. Last(Elder(q)) < Last(w)
            BY <6>2 DEF DocInv, Before, Exists
          <6>. QED
            BY <5>1, <5>3, <6>2, <6>3
        <5>4. Last(q) = Last(w)
          BY <5>1, <5>2, <5>3
        <5>. QED
          BY <5>1, <5>4, SamePath
      <4>2. Place(q) = c
        BY <4>1 DEF DocInv, NextPlace
      <4>. QED
        BY <1>7, <3>2, <3>4, <4>2
    <3>. QED
      BY <3>3, <3>4
  <2>. QED
    BY <1>1, <2>1, Zenon DEF Filled, Exists, IsSession
<1>. QED
  BY <1>15, <1>16, <1>17, <1>18, <1>19, <1>20, <1>21, <1>22, <1>23, <1>24, Zenon DEF DocInv

-----------------------------------------------------------------------------
(***************************************************************************)
(* The document as the reader finds it: every session is closed.           *)
(***************************************************************************)
LEMMA Document ==
  ASSUME DocInv, wopen = << >>, NEW p \in DOMAIN items
  PROVE  /\ p \in Paths /\ at[p] \in Nat /\ EndOf(p) \in Nat
         /\ at[p] + OwnSize(items[p]) <= EndOf(p) /\ EndOf(p) <= wr.currOffset
         /\ ~IsSession(p) => EndOf(p) = at[p] + Len(items[p])
         /\ IsSession(p) => wr.bytes[at[p] + 1] = EndOf(p) - at[p]
         /\ Len(p) > 1 => /\ Front(p) \in DOMAIN items /\ IsSession(Front(p))
                          /\ EndOf(p) <= EndOf(Front(p))
<1>1. Opened = {}
  BY DEF Opened
<1>2. /\ p \in Paths /\ at[p] \in Nat /\ OwnEnd(p) = at[p] + OwnSize(items[p])
      /\ OwnSize(items[p]) \in Nat /\ Len(items[p]) \in Nat /\ OwnEnd(p) \in Nat
  BY ItemTypes DEF DocInv
<1>3. /\ IsSession(p) => wr.bytes[at[p] + 1] \in Nat
      /\ OwnEnd(p) <= EndOf(p) /\ EndOf(p) <= wr.currOffset
      /\ Len(p) > 1 => EndOf(p) <= EndOf(Front(p))
  BY <1>1 DEF DocInv, Sized
<1>4. /\ ~IsSession(p) => EndOf(p) = at[p] + Len(items[p])
      /\ IsSession(p) => EndOf(p) = at[p] + wr.bytes[at[p] + 1]
  BY DEF EndOf
<1>5. Len(p) > 1 => Front(p) \in DOMAIN items /\ IsSession(Front(p))
  BY DEF DocInv, Tree, Exists
<1>6. EndOf(p) \in Nat
  BY <1>2, <1>3, <1>4
<1>7. IsSession(p) => wr.bytes[at[p] + 1] = EndOf(p) - at[p]
  BY <1>2, <1>3, <1>4
<1>. QED
  BY <1>2, <1>3, <1>4, <1>5, <1>6, <1>7

\* Where the first item of a document is, if there is one.
LEMMA FirstItem ==
  ASSUME DocInv, wopen = << >>
  PROVE  IF << 1 >> \in DOMAIN items THEN at[<< 1 >>] = 0 ELSE wr.currOffset = 0
<1>. DEFINE p == << 1 >>
<1>1. p \in Paths /\ Len(p) = 1 /\ Last(p) = 1 /\ Len(Front(p)) = 0 /\ Front(p) \in Seq(Nat \ {0})
  <2>1. p \in Paths /\ Len(p) = 1 /\ p[1] = 1
    BY DEF Paths
  <2>. HIDE DEF p
  <2>. QED
    BY <2>1, PathParts
<1>. HIDE DEF p
<1>2. Place(p) = 0
  BY <1>1 DEF Place
<1>3. CASE p \in DOMAIN items
  BY <1>2, <1>3 DEF DocInv, Placed, p
<1>4. CASE p \notin DOMAIN items
  <2>1. /\ wpath \in Paths /\ Len(wpath) = 1 /\ Last(wpath) \in Nat \ {0}
        /\ Front(wpath) \in Seq(Nat \ {0}) /\ Len(Front(wpath)) = 0
    BY PathParts DEF DocInv, WriterType
  <2>2. Front(wpath) = Front(p)
    BY <1>1, <2>1, SeqEqual
  <2>3. ~(Last(p) < Last(wpath))
    BY <1>1, <1>4, <2>2 DEF DocInv, Before, Exists
  <2>4. wpath = p
    BY <1>1, <2>1, <2>2, <2>3, SamePath
  <2>. QED
    BY <1>2, <1>4, <2>4 DEF DocInv, NextPlace, p
<1>. QED
  BY <1>3, <1>4

\* What is behind an item, and behind a session's header.
LEMMA Behind ==
  ASSUME DocInv, wopen = << >>, NEW p \in DOMAIN items
  PROVE  IF Sibling(p) \in DOMAIN items THEN at[Sibling(p)] = EndOf(p)
         ELSE EndOf(p) = IF Len(p) > 1 THEN EndOf(Front(p)) ELSE wr.currOffset
<1>. DEFINE q == Sibling(p)
<1>1. p \in Paths /\ (Len(p) > 1 => Front(p) \in DOMAIN items /\ IsSession(Front(p)))
  BY Document
<1>2. /\ q \in Paths /\ Front(q) = Front(p) /\ Last(q) = Last(p) + 1 /\ Len(q) = Len(p)
      /\ Elder(q) = p /\ Last(p) \in Nat \ {0} /\ Len(p) \in Nat \ {0}
  BY <1>1, SiblingPath, PathParts
<1>. HIDE DEF q
<1>3. Place(q) = EndOf(p)
  <2>1. Last(q) > 1
    BY <1>2
  <2>. QED
    BY <1>2, <2>1 DEF Place
<1>4. CASE q \in DOMAIN items
  BY <1>3, <1>4 DEF DocInv, Placed, q
<1>5. CASE q \notin DOMAIN items /\ Len(p) > 1
  <2>1. Opened = {}
    BY DEF Opened
  <2>2. Place(q) = EndOf(Front(q))
    BY <1>1, <1>2, <1>5, <2>1 DEF DocInv, Filled, Exists
  <2>. QED
    BY <1>2, <1>3, <1>5, <2>2 DEF q
<1>6. CASE q \notin DOMAIN items /\ ~(Len(p) > 1)
  <2>1. /\ wpath \in Paths /\ Len(wpath) = 1 /\ Last(wpath) \in Nat \ {0}
        /\ Front(wpath) \in Seq(Nat \ {0}) /\ Len(Front(wpath)) = 0
    BY PathParts DEF DocInv, WriterType
  <2>2. Len(p) = 1 /\ Front(p) \in Seq(Nat \ {0}) /\ Len(Front(p)) = 0
    BY <1>1, <1>2, <1>6, PathParts, SMTT(30)
  <2>3. Front(wpath) = Front(p)
    BY <2>1, <2>2, SeqEqual
  <2>4. Last(p) < Last(wpath) /\ ~(Last(q) < Last(wpath))
    BY <1>1, <1>2, <1>6, <2>3 DEF DocInv, Before, Exists
  <2>5. Last(q) = Last(wpath)
    BY <1>2, <2>1, <2>4
  <2>6. wpath = q
    BY <1>2, <2>1, <2>3, <2>5, SamePath
  <2>. QED
    BY <1>3, <1>6, <2>6 DEF DocInv, NextPlace, q
<1>. QED
  BY <1>4, <1>5, <1>6 DEF q

LEMMA Inside ==
  ASSUME DocInv, wopen = << >>, NEW p \in DOMAIN items, IsSession(p)
  PROVE  IF Child(p) \in DOMAIN items THEN at[Child(p)] = at[p] + HeaderSize
         ELSE EndOf(p) = at[p] + HeaderSize
<1>. DEFINE q == Child(p)
<1>1. p \in Paths
  BY Document
<1>2. q \in Paths /\ Front(q) = p /\ Last(q) = 1 /\ Len(q) = Len(p) + 1 /\ Len(p) \in Nat \ {0}
  BY <1>1, ChildPath, PathParts
<1>. HIDE DEF q
<1>3. Place(q) = at[p] + HeaderSize
  <2>1. ~(Last(q) > 1) /\ Len(q) > 1
    BY <1>2
  <2>. QED
    BY <1>2, <2>1 DEF Place
<1>4. CASE q \in DOMAIN items
  BY <1>3, <1>4 DEF DocInv, Placed, q
<1>5. CASE q \notin DOMAIN items
  <2>1. Opened = {} /\ ~(Last(q) > 1) /\ Len(q) > 1
    BY <1>2 DEF Opened
  <2>2. Place(q) = EndOf(Front(q))
    BY <1>2, <1>5, <2>1 DEF DocInv, Filled, Exists
  <2>. QED
    BY <1>2, <1>3, <1>5, <2>2 DEF q
<1>. QED
  BY <1>4, <1>5 DEF q

\* What does not exist has no item behind it or inside it.
LEMMA Nowhere ==
  ASSUME DocInv, NEW p \in Paths, p \notin DOMAIN items
  PROVE  Sibling(p) \notin DOMAIN items /\ Child(p) \notin DOMAIN items
<1>1. /\ Last(Sibling(p)) = Last(p) + 1 /\ Elder(Sibling(p)) = p /\ Last(p) \in Nat \ {0}
      /\ Len(Child(p)) = Len(p) + 1 /\ Front(Child(p)) = p /\ Len(p) \in Nat \ {0}
  BY SiblingPath, ChildPath, PathParts
<1>2. Last(Sibling(p)) > 1 /\ Len(Child(p)) > 1
  BY <1>1
<1>. QED
  BY <1>1, <1>2 DEF DocInv, Tree, Exists

-----------------------------------------------------------------------------
(***************************************************************************)
(* The reader.                                                             *)
(***************************************************************************)
Local == [ startPos : Nat, size : Nat, readEndPos : Nat ]

ReaderType ==
  /\ rd \in Reader /\ delivered \in Nat
  /\ rpath \in Paths /\ ropen \in Seq(Local) /\ Len(rpath) = Len(ropen) + 1

\* Where the reader's session at this depth ends.
Edge(k) == IF k = 0 THEN delivered ELSE ropen[k].startPos + ropen[k].size

\* A session that the writer has ends for the reader where it ends in the
\* document; one that it does not have is empty, at the end of the session
\* around it.
Knows(k) == IF Exists(Upto(rpath, k)) THEN Edge(k) = EndOf(Upto(rpath, k))
                                      ELSE k > 1 /\ Edge(k) = Edge(k - 1)

\* The limits of the adapter are those of the sessions.
Confined ==
  /\ \A k \in 1 .. Len(ropen) :
       /\ Knows(k) /\ 0 < Edge(k) /\ Edge(k) <= Edge(k - 1) /\ Edge(k) <= delivered
       /\ ropen[k].readEndPos = IF k = 1 THEN 0 ELSE Edge(k - 1)
  /\ rd.bufferSize = delivered
  /\ rd.endReadOffset = Edge(Len(ropen))
  /\ rd.overflowOnReadEndPos = (ropen = << >>)

\* The reader is where the item was written, or at the end of what there is.
AtItem ==
  rd.currOffset = IF Exists(rpath) THEN at[rpath]
                  ELSE IF ropen = << >> THEN wr.currOffset ELSE Edge(Len(ropen))

Healthy == Confined /\ AtItem /\ rd.currOffset <= rd.endReadOffset

\* The document is cut off, and the error is final.
Broken ==
  /\ delivered < wr.currOffset
  /\ rd.currOffset = DataOverflow /\ rd.endReadOffset = 0 /\ rd.bufferSize = 0

\* What was read last is what was written there, or nothing was there.
RightSoFar ==
  \/ Exists(last.path) /\ last.got = items[last.path]
  \/ last.got = Zeros(Len(last.got)) /\ (Exists(last.path) => delivered < wr.currOffset)

ReaderInv ==
  IF phase = "writing"
    THEN /\ delivered = 0 /\ rd = NewReader(0) /\ rpath = << 1 >> /\ ropen = << >>
         /\ last = [ path |-> << >>, got |-> << >> ]
    ELSE /\ wopen = << >> /\ delivered <= wr.currOffset
         /\ Healthy \/ Broken
         /\ RightSoFar
         /\ phase = "done" => ropen = << >> /\ ~Exists(rpath)

IInv == DocInv /\ ReaderType /\ ReaderInv

LEMMA EdgeType ==
  ASSUME ReaderType, NEW k \in 0 .. Len(ropen)
  PROVE  Edge(k) \in Nat
<1>1. CASE k = 0
  BY <1>1 DEF Edge, ReaderType
<1>2. CASE k # 0
  <2>1. ropen[k] \in Local
    BY <1>2, ElementOfSeq DEF ReaderType
  <2>. QED
    BY <1>2, <2>1 DEF Edge, Local
<1>. QED
  BY <1>1, <1>2

\* A reader without an error.
LEMMA HealthyReader ==
  ASSUME DocInv, ReaderType, wopen = << >>, Healthy
  PROVE  /\ rd.bufferSize = delivered /\ delivered \in Nat /\ wr.currOffset \in Nat
         /\ rd.endReadOffset = Edge(Len(ropen))
         /\ Edge(Len(ropen)) \in Nat /\ Edge(Len(ropen)) <= delivered
         /\ rd.currOffset \in Nat /\ rd.currOffset <= Edge(Len(ropen))
         /\ rd.overflowOnReadEndPos = (ropen = << >>)
         /\ Exists(rpath) => rd.currOffset = at[rpath]
         /\ ropen = << >> => Edge(Len(ropen)) = delivered
         /\ ropen # << >> => /\ 0 < Edge(Len(ropen))
                             /\ Exists(rpath) => EndOf(rpath) <= Edge(Len(ropen))
                             /\ ~Exists(rpath) => rd.currOffset = Edge(Len(ropen))
         /\ ropen = << >> /\ ~Exists(rpath) => rd.currOffset = wr.currOffset
<1>. PICK m \in Nat : m = Len(ropen)
  BY DEF ReaderType
<1>1. /\ rd.bufferSize = delivered /\ rd.endReadOffset = Edge(m)
      /\ rd.overflowOnReadEndPos = (ropen = << >>) /\ rd.currOffset <= Edge(m)
      /\ rd.currOffset = IF Exists(rpath) THEN at[rpath]
                         ELSE IF ropen = << >> THEN wr.currOffset ELSE Edge(m)
  BY DEF Healthy, Confined, AtItem
<1>2. delivered \in Nat /\ rd.currOffset \in Nat /\ wr.currOffset \in Nat /\ Edge(m) \in Nat
  BY EdgeType, HereIsFree DEF ReaderType, Reader
<1>3. CASE ropen = << >>
  <2>1. m = 0 /\ Edge(m) = delivered
    BY <1>3 DEF Edge
  <2>. QED
    BY <1>1, <1>2, <1>3, <2>1
<1>4. CASE ropen # << >>
  <2>1. m \in 1 .. Len(ropen)
    BY <1>4 DEF ReaderType
  <2>2. Knows(m) /\ 0 < Edge(m) /\ Edge(m) <= delivered
    BY <2>1 DEF Healthy, Confined
  <2>3. Exists(rpath) => EndOf(rpath) <= Edge(m)
    <3>1. Len(rpath) > 1 /\ Front(rpath) = Upto(rpath, Len(rpath) - 1) /\ Len(rpath) - 1 = m
      BY <2>1, PathParts DEF ReaderType
    <3>2. Front(rpath) = Upto(rpath, m)
      BY <3>1
    <3>. QED
      BY <2>2, <3>1, <3>2, Document DEF Knows, Exists
  <2>. QED
    BY <1>1, <1>2, <1>4, <2>2, <2>3
<1>. QED
  BY <1>3, <1>4

\* A reader with an error keeps it.
LEMMA BrokenReader ==
  ASSUME Broken, NEW n \in Nat, NEW pos \in Nat
  PROVE  /\ ReadBytes(rd, n).currOffset = DataOverflow /\ ReadBytes(rd, n).endReadOffset = 0
         /\ ReadBytes(rd, n).bufferSize = 0 /\ ~Fits(rd, n)
         /\ SetReadPos(rd, pos) = rd /\ SetReadEndPos(rd, pos) = rd
         /\ ReadBytes(rd, n) = rd
         /\ GetError(rd) # NoError /\ ~IsCompletedSuccessfully(rd)
<1>1. rd.currOffset = 2 /\ rd.endReadOffset = 0 /\ rd.bufferSize = 0
  BY DEF Broken, DataOverflow
<1>2. ~Fits(rd, n)
  BY <1>1 DEF Fits
<1>3. GetError(rd) = 2
  BY <1>1 DEF GetError
<1>4. \A e : RaiseError(rd, e) = rd
  BY <1>1 DEF RaiseError
<1>5. ReadBytes(rd, n) = rd
  BY <1>2, <1>4 DEF ReadBytes
<1>6. SetReadPos(rd, pos) = rd /\ SetReadEndPos(rd, pos) = rd
  BY <1>3, <1>4 DEF SetReadPos, SetReadEndPos, NoError
<1>. QED
  BY <1>1, <1>2, <1>3, <1>5, <1>6 DEF IsCompletedSuccessfully, NoError, DataOverflow

LEMMA ZerosType == \A n \in Nat : Zeros(n) \in Seq(Nat) /\ Len(Zeros(n)) = n
<1>1. ASSUME NEW n \in Nat PROVE Zeros(n) \in [ 1 .. n -> Nat ]
  BY DEF Zeros
<1>. QED
  BY <1>1, FunctionIsSeq

\* An error that running out of data raises.
LEMMA Breaks ==
  ASSUME NEW r \in Reader, r.currOffset <= r.endReadOffset
  PROVE  /\ RaiseError(r, DataOverflow) \in Reader
         /\ RaiseError(r, DataOverflow).currOffset = DataOverflow
         /\ RaiseError(r, DataOverflow).endReadOffset = 0
         /\ RaiseError(r, DataOverflow).bufferSize = 0
BY DEF RaiseError, Reader, DataOverflow

\* A limit within the buffer, and none.
LEMMA Limited ==
  ASSUME NEW r, NEW pos, r.bufferSize >= pos, GetError(r) = NoError
  PROVE  /\ pos # 0 => SetReadEndPos(r, pos) =
              [ r EXCEPT !.overflowOnReadEndPos = FALSE, !.endReadOffset = pos ]
         /\ pos = 0 => SetReadEndPos(r, pos) =
              [ r EXCEPT !.overflowOnReadEndPos = TRUE, !.endReadOffset = r.bufferSize ]
<1>1. CASE pos = 0
  <2>1. (pos = 0) = TRUE
    BY <1>1
  <2>. QED
    BY <1>1, <2>1, Zenon DEF SetReadEndPos
<1>2. CASE pos # 0
  <2>1. (pos = 0) = FALSE
    BY <1>2
  <2>. QED
    BY <1>2, <2>1, Zenon DEF SetReadEndPos
<1>. QED
  BY <1>1, <1>2

\* Sessions that stay open when the reader goes on.
LEMMA SessionsStay ==
  ASSUME NEW j \in Nat, UNCHANGED <<writerVars, delivered>>,
         \A k \in 1 .. j : ropen'[k] = ropen[k] /\ Upto(rpath', k) = Upto(rpath, k)
  PROVE  /\ \A k \in 0 .. j : Edge(k)' = Edge(k)
         /\ \A k \in 1 .. j : Knows(k)' <=> Knows(k)
<1>1. ASSUME NEW k \in 0 .. j PROVE Edge(k)' = Edge(k)
  <2>1. delivered' = delivered /\ (k # 0 => ropen'[k] = ropen[k])
    OBVIOUS
  <2>. QED
    BY <2>1, Zenon DEF Edge
<1>2. ASSUME NEW k \in 1 .. j PROVE Knows(k)' <=> Knows(k)
  <2>. DEFINE q == Upto(rpath, k)
  <2>1. Upto(rpath', k) = q
    OBVIOUS
  <2>2. wr' = wr /\ items' = items /\ at' = at
    BY DEF writerVars
  <2>3. Edge(k)' = Edge(k) /\ (k > 1 => Edge(k - 1)' = Edge(k - 1))
    <3>. PICK i \in 0 .. j : i = k - 1
      OBVIOUS
    <3>1. Edge(i)' = Edge(i) /\ Edge(k)' = Edge(k)
      BY <1>1
    <3>2. Edge(k - 1)' = Edge(i)' /\ Edge(k - 1) = Edge(i)
      BY Zenon
    <3>. QED
      BY <3>1, <3>2
  <2>4. Exists(Upto(rpath, k))' <=> Exists(q)
    BY <2>1, <2>2, Zenon DEF Exists
  <2>5. EndOf(Upto(rpath, k))' = EndOf(q)
    BY <2>1, <2>2, Zenon DEF EndOf, IsSession
  <2>. QED
    BY <2>3, <2>4, <2>5 DEF Knows
<1>. QED
  BY <1>1, <1>2

LEMMA SameDocument ==
  ASSUME DocInv, UNCHANGED writerVars
  PROVE  DocInv'
<1>1. wr' = wr /\ wpath' = wpath /\ wopen' = wopen /\ items' = items /\ at' = at
  BY DEF writerVars
<1>2. Opened' = Opened
  BY <1>1, Zenon DEF Opened
<1>3. \A p : (Exists(p)' <=> Exists(p)) /\ (IsSession(p)' <=> IsSession(p))
  BY <1>1, Zenon DEF Exists, IsSession
<1>4. \A p : EndOf(p)' = EndOf(p) /\ OwnEnd(p)' = OwnEnd(p)
  BY <1>1, Zenon DEF EndOf, OwnEnd, IsSession
<1>5. \A p : Place(p)' = Place(p)
  <2>. TAKE p
  <2>. DEFINE e == Elder(p)
  <2>1. EndOf(e)' = EndOf(e)
    BY <1>4
  <2>. QED
    BY <1>1, <2>1, Zenon DEF Place
<1>6. WriterType'
  BY <1>1, Zenon DEF DocInv, WriterType, AtEnd
<1>7. Tree' /\ Around' /\ Before'
  BY <1>1, Zenon DEF DocInv, Tree, Around, Before, Exists, IsSession
<1>8. Apart'
  BY <1>1, Zenon DEF DocInv, Apart, OwnEnd
<1>9. Placed' /\ NextPlace' /\ Kept'
  BY <1>1, Zenon DEF DocInv, Placed, NextPlace, Kept, Place, EndOf, IsSession
<1>10. Sized'
  BY <1>1, Zenon DEF DocInv, Sized, Opened, OwnEnd, EndOf, IsSession
<1>11. Filled'
  BY <1>1, Zenon DEF DocInv, Filled, Opened, Place, EndOf, Exists, IsSession
<1>. QED
  BY <1>6, <1>7, <1>8, <1>9, <1>10, <1>11, Zenon DEF DocInv

\* What a read that fits gets are the bytes that were written there.
LEMMA DeliveredBytes ==
  ASSUME DocInv, ReaderType, delivered <= wr.currOffset, NEW n \in Nat \ {0},
         Fits(rd, n), rd.currOffset + n <= delivered
  PROVE  /\ BytesRead(rd, Delivered, n) \in Seq(Int) /\ Len(BytesRead(rd, Delivered, n)) = n
         /\ \A i \in 1 .. n : BytesRead(rd, Delivered, n)[i] = wr.bytes[rd.currOffset + i]
<1>. PICK o \in Nat : o = rd.currOffset
  BY DEF ReaderType, Reader
<1>. DEFINE data == SubSeq(wr.bytes, 1, delivered)
<1>1. /\ wr.bytes \in Seq(Int) /\ Len(wr.bytes) = wr.currOffset /\ wr.currOffset \in Nat
      /\ delivered \in Nat /\ n \in Nat /\ n > 0
  BY DEF DocInv, WriterType, AtEnd, Writer, ReaderType
<1>2. /\ data \in Seq(Int) /\ Len(data) = delivered
      /\ \A i \in 1 .. delivered : data[i] = wr.bytes[i]
  <2>1. \A i \in 1 .. delivered : wr.bytes[i] \in Int
    BY <1>1
  <2>2. 1 \in Int /\ delivered \in Int
    BY <1>1
  <2>3. /\ data \in Seq(Int)
        /\ Len(data) = IF 1 <= delivered THEN delivered - 1 + 1 ELSE 0
        /\ \A i \in 1 .. delivered - 1 + 1 : data[i] = wr.bytes[1 + i - 1]
    BY <2>1, <2>2, SubSeqProperties
  <2>. QED
    BY <1>1, <2>3
<1>. HIDE DEF data
<1>. PICK e \in Nat : e = o + n
  BY <1>1
<1>5. o + 1 \in Int /\ e \in Int /\ e - (o + 1) + 1 = n /\ o + 1 <= e
  <2>1. n \in Nat /\ n >= 1
    BY <1>1
  <2>2. o + 1 \in Int /\ e \in Int
    OBVIOUS
  <2>3. e - (o + 1) + 1 = n
    BY <2>1
  <2>4. o + 1 <= e
    BY <2>1
  <2>. QED
    BY <2>2, <2>3, <2>4
<1>. DEFINE b == SubSeq(data, o + 1, e)
<1>3. BytesRead(rd, Delivered, n) = b
  BY DEF BytesRead, Delivered, data
<1>4. \A i \in o + 1 .. e : i \in 1 .. delivered /\ data[i] \in Int
  BY <1>1, <1>2
<1>6. b \in Seq(Int) /\ Len(b) = n /\ \A i \in 1 .. n : b[i] = data[o + 1 + i - 1]
  <2>1. /\ b \in Seq(Int)
        /\ Len(b) = IF o + 1 <= e THEN e - (o + 1) + 1 ELSE 0
        /\ \A i \in 1 .. e - (o + 1) + 1 : b[i] = data[o + 1 + i - 1]
    BY <1>4, <1>5, SubSeqProperties
  <2>. QED
    BY <1>5, <2>1
<1>. HIDE DEF b
<1>7. ASSUME NEW i \in 1 .. n PROVE b[i] = wr.bytes[o + i]
  <2>1. o + 1 + i - 1 = o + i /\ o + i \in o + 1 .. e
    BY <1>1, SMTT(30)
  <2>. QED
    BY <1>2, <1>4, <1>6, <2>1
<1>. QED
  BY <1>3, <1>6, <1>7

\* As long as the reader neither opens nor closes a session, it is confined
\* to the same ones.
LEMMA SameSessions ==
  ASSUME ReaderType, Confined, UNCHANGED <<writerVars, delivered, ropen>>,
         \A k \in 1 .. Len(ropen) : Upto(rpath', k) = Upto(rpath, k),
         rd'.bufferSize = rd.bufferSize, rd'.endReadOffset = rd.endReadOffset,
         rd'.overflowOnReadEndPos = rd.overflowOnReadEndPos
  PROVE  Confined' /\ Edge(Len(ropen))' = Edge(Len(ropen))
<1>. PICK m \in Nat : m = Len(ropen)
  BY DEF ReaderType
<1>1. ropen' = ropen /\ delivered' = delivered
  OBVIOUS
<1>2. /\ \A k \in 0 .. m : Edge(k)' = Edge(k)
      /\ \A k \in 1 .. m : Knows(k)' <=> Knows(k)
  <2>1. \A k \in 1 .. m : ropen'[k] = ropen[k] /\ Upto(rpath', k) = Upto(rpath, k)
    BY <1>1
  <2>. QED
    BY <2>1, SessionsStay
<1>3. \A k \in 1 .. Len(ropen) :
        /\ Knows(k)' /\ 0 < Edge(k)' /\ Edge(k)' <= Edge(k - 1)' /\ Edge(k)' <= delivered'
        /\ ropen'[k].readEndPos = IF k = 1 THEN 0 ELSE Edge(k - 1)'
  <2>. TAKE k \in 1 .. Len(ropen)
  <2>. PICK i \in 0 .. m : i = k - 1
    OBVIOUS
  <2>1. Edge(k)' = Edge(k) /\ Edge(i)' = Edge(i) /\ (Knows(k)' <=> Knows(k))
    BY <1>2
  <2>2. Edge(k - 1)' = Edge(i)' /\ Edge(k - 1) = Edge(i)
    BY Zenon
  <2>3. /\ Knows(k) /\ 0 < Edge(k) /\ Edge(k) <= Edge(k - 1) /\ Edge(k) <= delivered
        /\ ropen[k].readEndPos = IF k = 1 THEN 0 ELSE Edge(k - 1)
    BY DEF Confined
  <2>. QED
    BY <1>1, <2>1, <2>2, <2>3
<1>4. Edge(Len(ropen))' = Edge(Len(ropen))
  <2>1. Edge(Len(ropen))' = Edge(m)'
    BY <1>1, Zenon DEF Edge
  <2>2. m \in 0 .. m
    OBVIOUS
  <2>. QED
    BY <1>2, <2>1, <2>2
<1>5. /\ rd'.bufferSize = delivered'
      /\ rd'.endReadOffset = Edge(Len(ropen))'
      /\ rd'.overflowOnReadEndPos = (ropen' = << >>)
  BY <1>1, <1>4 DEF Confined
<1>6. \A k \in 1 .. Len(ropen') :
        /\ Knows(k)' /\ 0 < Edge(k)' /\ Edge(k)' <= Edge(k - 1)' /\ Edge(k)' <= delivered'
        /\ ropen'[k].readEndPos = IF k = 1 THEN 0 ELSE Edge(k - 1)'
  BY <1>1, <1>3, Zenon
<1>. QED
  BY <1>4, <1>5, <1>6, Zenon DEF Confined

\* What the end of the reader's session is, behind the session's last item.
LEMMA EndOfSession ==
  ASSUME DocInv, ReaderType, wopen = << >>, Confined, Exists(rpath)
  PROVE  EndOf(rpath) = IF Sibling(rpath) \in DOMAIN items THEN at[Sibling(rpath)]
                        ELSE IF ropen = << >> THEN wr.currOffset ELSE Edge(Len(ropen))
<1>. PICK p \in Paths : p = rpath
  BY DEF ReaderType
<1>. PICK m \in Nat : m = Len(ropen)
  BY DEF ReaderType
<1>0. p \in DOMAIN items
  BY DEF Exists
<1>1. IF Sibling(p) \in DOMAIN items THEN at[Sibling(p)] = EndOf(p)
      ELSE EndOf(p) = IF Len(p) > 1 THEN EndOf(Front(p)) ELSE wr.currOffset
  BY <1>0, Behind
<1>2. CASE ropen = << >>
  <2>1. ~(Len(p) > 1)
    BY <1>2 DEF ReaderType
  <2>. QED
    BY <1>1, <1>2, <2>1
<1>3. CASE ropen # << >>
  <2>1. m \in 1 .. Len(ropen) /\ Len(p) > 1 /\ Len(p) - 1 = m
    BY <1>3 DEF ReaderType
  <2>2. Front(p) = Upto(p, m) /\ Front(p) \in DOMAIN items
    <3>1. Front(p) = Upto(p, Len(p) - 1)
      BY PathParts
    <3>. QED
      BY <1>0, <2>1, <3>1, Document
  <2>3. Knows(m)
    BY <2>1 DEF Confined
  <2>4. Edge(m) = EndOf(Front(p))
    BY <2>2, <2>3 DEF Knows, Exists
  <2>. QED
    BY <1>1, <1>3, <2>1, <2>4
<1>. QED
  BY <1>2, <1>3

\* A session more: its end lies within the session around it.
LEMMA OneMore ==
  ASSUME ReaderType, Confined, UNCHANGED <<writerVars, delivered>>,
         NEW l \in Local, NEW e \in Nat \ {0}, e = l.startPos + l.size,
         ropen' = Append(ropen, l), rpath' = Child(rpath),
         IF Exists(rpath) THEN e = EndOf(rpath)
         ELSE ropen # << >> /\ e = Edge(Len(ropen)),
         e <= Edge(Len(ropen)), e <= delivered,
         l.readEndPos = IF ropen = << >> THEN 0 ELSE Edge(Len(ropen)),
         rd'.bufferSize = delivered, rd'.endReadOffset = e, rd'.overflowOnReadEndPos = FALSE
  PROVE  Confined' /\ ropen' # << >> /\ Edge(Len(ropen))' = e
<1>. PICK p \in Paths : p = rpath
  BY DEF ReaderType
<1>. PICK m \in Nat : m = Len(ropen)
  BY DEF ReaderType
<1>. PICK j \in Nat \ {0} : j = m + 1
  OBVIOUS
<1>1. /\ Len(ropen') = j /\ ropen' # << >> /\ ropen'[j] = l
      /\ \A k \in 1 .. m : ropen'[k] = ropen[k]
  BY AppendProperties DEF ReaderType
<1>2. /\ Len(p) = j /\ Upto(rpath', j) = p
      /\ \A k \in 1 .. m : Upto(rpath', k) = Upto(rpath, k)
  <2>1. /\ \A k \in 0 .. Len(p) : Upto(Child(p), k) = Upto(p, k)
        /\ Upto(p, Len(p)) = p /\ Len(p) = j
    BY ChildPath, PathParts DEF ReaderType
  <2>2. j \in 0 .. Len(p) /\ \A k \in 1 .. m : k \in 0 .. Len(p)
    BY <2>1
  <2>. QED
    BY <2>1, <2>2
<1>3. /\ \A k \in 0 .. m : Edge(k)' = Edge(k)
      /\ \A k \in 1 .. m : Knows(k)' <=> Knows(k)
  BY <1>1, <1>2, SessionsStay
<1>4. Edge(j)' = e
  <2>1. Edge(j)' = ropen'[j].startPos + ropen'[j].size
    BY DEF Edge
  <2>. QED
    BY <1>1, <2>1
<1>5. Edge(j - 1)' = Edge(m)
  <2>1. Edge(m)' = Edge(m) /\ j - 1 = m
    BY <1>3
  <2>2. Edge(j - 1)' = Edge(m)'
    BY <2>1, Zenon
  <2>. QED
    BY <2>1, <2>2
<1>6. Knows(j)'
  <2>1. wr' = wr /\ items' = items /\ at' = at
    BY DEF writerVars
  <2>2. (Exists(Upto(rpath, j))' <=> Exists(p)) /\ EndOf(Upto(rpath, j))' = EndOf(p)
    BY <1>2, <2>1, Zenon DEF Exists, EndOf, IsSession
  <2>3. IF Exists(p) THEN e = EndOf(p) ELSE m > 0 /\ e = Edge(m)
    BY DEF ReaderType
  <2>4. Exists(Upto(rpath, j))' => Edge(j)' = EndOf(Upto(rpath, j))'
    BY <1>4, <2>2, <2>3
  <2>5. ~Exists(Upto(rpath, j))' => j > 1 /\ Edge(j)' = Edge(j - 1)'
    BY <1>4, <1>5, <2>2, <2>3
  <2>. QED
    BY <2>4, <2>5, Zenon DEF Knows
<1>7. ASSUME NEW k \in 1 .. j
      PROVE  /\ Knows(k)' /\ 0 < Edge(k)' /\ Edge(k)' <= Edge(k - 1)' /\ Edge(k)' <= delivered'
             /\ ropen'[k].readEndPos = IF k = 1 THEN 0 ELSE Edge(k - 1)'
  <2>1. CASE k = j
    <3>1. l.readEndPos = IF j = 1 THEN 0 ELSE Edge(m)
      BY DEF ReaderType
    <3>2. 0 < e /\ e <= Edge(m) /\ e <= delivered'
      OBVIOUS
    <3>3. /\ Knows(j)' /\ 0 < Edge(j)' /\ Edge(j)' <= Edge(j - 1)' /\ Edge(j)' <= delivered'
          /\ ropen'[j].readEndPos = IF j = 1 THEN 0 ELSE Edge(j - 1)'
      BY <1>1, <1>4, <1>5, <1>6, <3>1, <3>2
    <3>. QED
      BY <2>1, <3>3
  <2>2. CASE k # j
    <3>. PICK i \in 0 .. m : i = k - 1
      OBVIOUS
    <3>1. /\ k \in 1 .. m /\ Edge(k)' = Edge(k) /\ Edge(i)' = Edge(i)
          /\ (Knows(k)' <=> Knows(k)) /\ ropen'[k] = ropen[k]
      BY <1>1, <1>3, <2>2
    <3>2. Edge(k - 1)' = Edge(i)' /\ Edge(k - 1) = Edge(i)
      BY Zenon
    <3>3. /\ Knows(k) /\ 0 < Edge(k) /\ Edge(k) <= Edge(k - 1) /\ Edge(k) <= delivered
          /\ ropen[k].readEndPos = IF k = 1 THEN 0 ELSE Edge(k - 1)
      BY <3>1 DEF Confined
    <3>. QED
      BY <3>1, <3>2, <3>3
  <2>. QED
    BY <2>1, <2>2
<1>8. Edge(Len(ropen))' = e
  <2>1. Edge(Len(ropen))' = Edge(j)'
    BY <1>1, Zenon DEF Edge
  <2>. QED
    BY <1>4, <2>1
<1>9. /\ rd'.bufferSize = delivered'
      /\ rd'.endReadOffset = Edge(Len(ropen))'
      /\ rd'.overflowOnReadEndPos = (ropen' = << >>)
  BY <1>1, <1>8
<1>10. \A k \in 1 .. Len(ropen') :
        /\ Knows(k)' /\ 0 < Edge(k)' /\ Edge(k)' <= Edge(k - 1)' /\ Edge(k)' <= delivered'
        /\ ropen'[k].readEndPos = IF k = 1 THEN 0 ELSE Edge(k - 1)'
  BY <1>1, <1>7, Zenon
<1>. QED
  BY <1>1, <1>8, <1>9, <1>10, Zenon DEF Confined

\* And one less.
LEMMA OneLess ==
  ASSUME ReaderType, Confined, UNCHANGED <<writerVars, delivered>>,
         ropen # << >>, ropen' = Front(ropen), rpath' = Sibling(Front(rpath)),
         rd'.bufferSize = delivered, rd'.endReadOffset = Edge(Len(ropen) - 1),
         rd'.overflowOnReadEndPos = (Len(ropen) = 1)
  PROVE  /\ Confined' /\ ropen' \in Seq(Local) /\ Len(ropen') = Len(ropen) - 1
         /\ Edge(Len(ropen))' = Edge(Len(ropen) - 1)
<1>. PICK p \in Paths : p = rpath
  BY DEF ReaderType
<1>. PICK m \in Nat \ {0} : m = Len(ropen)
  BY DEF ReaderType
<1>. PICK j \in Nat : j = m - 1
  OBVIOUS
<1>1. /\ ropen' \in Seq(Local) /\ Len(ropen') = j
      /\ \A k \in 1 .. j : ropen'[k] = ropen[k]
  <2>1. /\ Front(ropen) = SubSeq(ropen, 1, Len(ropen) - 1) /\ 1 \in Int /\ j \in Int
        /\ Len(ropen) - 1 = j
    BY DEF Front
  <2>2. \A k \in 1 .. j : ropen[k] \in Local
    BY ElementOfSeq DEF ReaderType
  <2>3. Front(ropen) = SubSeq(ropen, 1, j)
    BY <2>1
  <2>4. /\ SubSeq(ropen, 1, j) \in Seq(Local)
        /\ Len(SubSeq(ropen, 1, j)) = IF 1 <= j THEN j - 1 + 1 ELSE 0
        /\ \A k \in 1 .. j - 1 + 1 : SubSeq(ropen, 1, j)[k] = ropen[1 + k - 1]
    BY <2>1, <2>2, SubSeqProperties DEF ReaderType
  <2>. QED
    BY <2>3, <2>4
<1>2. /\ Len(p) = m + 1
      /\ \A k \in 1 .. j : Upto(rpath', k) = Upto(rpath, k)
  <2>1. Len(p) = m + 1 /\ Front(p) \in Paths /\ Len(Front(p)) = m
    <3>1. Len(p) = m + 1 /\ Front(p) \in Seq(Nat \ {0}) /\ Len(Front(p)) = Len(p) - 1
      BY PathParts DEF ReaderType
    <3>2. Len(Front(p)) = m /\ Front(p) # << >>
      BY <3>1
    <3>. QED
      BY <3>1, <3>2 DEF Paths
  <2>2. /\ \A k \in 0 .. Len(p) - 1 : Upto(Front(p), k) = Upto(p, k)
        /\ \A k \in 0 .. Len(Front(p)) - 1 : Upto(Sibling(Front(p)), k) = Upto(Front(p), k)
    BY <2>1, UptoFront, SiblingPath
  <2>3. \A k \in 1 .. j : k \in 0 .. Len(p) - 1 /\ k \in 0 .. Len(Front(p)) - 1
    BY <2>1
  <2>. QED
    BY <2>1, <2>2, <2>3
<1>3. /\ \A k \in 0 .. j : Edge(k)' = Edge(k)
      /\ \A k \in 1 .. j : Knows(k)' <=> Knows(k)
  BY <1>1, <1>2, SessionsStay
<1>4. ASSUME NEW k \in 1 .. j
      PROVE  /\ Knows(k)' /\ 0 < Edge(k)' /\ Edge(k)' <= Edge(k - 1)' /\ Edge(k)' <= delivered'
             /\ ropen'[k].readEndPos = IF k = 1 THEN 0 ELSE Edge(k - 1)'
  <2>. PICK i \in 0 .. j : i = k - 1
    OBVIOUS
  <2>1. /\ Edge(k)' = Edge(k) /\ Edge(i)' = Edge(i)
        /\ (Knows(k)' <=> Knows(k)) /\ ropen'[k] = ropen[k]
    BY <1>1, <1>3
  <2>2. Edge(k - 1)' = Edge(i)' /\ Edge(k - 1) = Edge(i)
    BY Zenon
  <2>3. k \in 1 .. Len(ropen)
    OBVIOUS
  <2>4. /\ Knows(k) /\ 0 < Edge(k) /\ Edge(k) <= Edge(k - 1) /\ Edge(k) <= delivered
        /\ ropen[k].readEndPos = IF k = 1 THEN 0 ELSE Edge(k - 1)
    BY <2>3 DEF Confined
  <2>. QED
    BY <2>1, <2>2, <2>4
<1>5. Edge(Len(ropen))' = Edge(j)
  <2>1. Edge(Len(ropen))' = Edge(j)'
    BY <1>1, Zenon DEF Edge
  <2>2. j \in 0 .. j
    OBVIOUS
  <2>. QED
    BY <1>3, <2>1, <2>2
<1>6. /\ rd'.bufferSize = delivered'
      /\ rd'.endReadOffset = Edge(Len(ropen))'
      /\ rd'.overflowOnReadEndPos = (ropen' = << >>)
  <2>1. (ropen' = << >>) = (m = 1)
    BY <1>1
  <2>. QED
    BY <1>5, <2>1
<1>7. \A k \in 1 .. Len(ropen') :
        /\ Knows(k)' /\ 0 < Edge(k)' /\ Edge(k)' <= Edge(k - 1)' /\ Edge(k)' <= delivered'
        /\ ropen'[k].readEndPos = IF k = 1 THEN 0 ELSE Edge(k - 1)'
  BY <1>1, <1>4, Zenon
<1>8. Confined'
  BY <1>6, <1>7, Zenon DEF Confined
<1>. QED
  BY <1>1, <1>5, <1>8

LEMMA ReadValueKeeps ==
  IInv /\ phase = "reading" /\ (\E n \in ValueSizes : ReadValue(n))
    => ReaderType' /\ ReaderInv'
<1>. SUFFICES ASSUME IInv, phase = "reading", NEW n \in ValueSizes, ReadValue(n)
              PROVE  ReaderType' /\ ReaderInv'
  OBVIOUS
<1>. PICK p \in Paths : p = rpath
  BY DEF IInv, ReaderType
<1>. PICK m \in Nat : m = Len(ropen)
  BY DEF IInv, ReaderType
<1>. PICK c \in Nat : c = wr.currOffset
  BY HereIsFree DEF IInv
<1>0. /\ n \in Nat \ {0} /\ DocInv /\ ReaderType /\ wopen = << >> /\ delivered <= c
      /\ Healthy \/ Broken
  BY ValueSizesAssumption DEF IInv, ReaderInv
<1>1. /\ rd' = ReadBytes(rd, n) /\ rpath' = Sibling(p) /\ ropen' = ropen /\ delivered' = delivered
      /\ phase' = phase /\ UNCHANGED writerVars
      /\ last' = [ path |-> p, got |-> BytesRead(rd, Delivered, n) ]
      /\ IF Exists(p) THEN Len(items[p]) = n ELSE Depth(p) > 0
  BY DEF ReadValue, Expects
<1>2. wr' = wr /\ items' = items /\ at' = at /\ wopen' = wopen
  BY <1>1 DEF writerVars
<1>3. /\ rd \in Reader /\ delivered \in Nat /\ ropen \in Seq(Local) /\ Len(p) = m + 1
      /\ Sibling(p) \in Paths /\ Len(Sibling(p)) = Len(p)
      /\ \A k \in 0 .. Len(p) - 1 : Upto(Sibling(p), k) = Upto(p, k)
  BY <1>0, SiblingPath DEF ReaderType
<1>4. \A k \in 1 .. Len(ropen) : Upto(rpath', k) = Upto(rpath, k)
  BY <1>1, <1>3
<1>5. rd' \in Reader => ReaderType'
  BY <1>1, <1>3 DEF ReaderType
<1>6. ASSUME Broken PROVE rd' \in Reader /\ Broken' /\ RightSoFar'
  <2>1. rd' = rd /\ ~Fits(rd, n)
    BY <1>0, <1>1, <1>6, BrokenReader
  <2>2. last'.got = Zeros(n) /\ Len(Zeros(n)) = n
    BY <1>0, <1>1, <2>1, ZerosType DEF BytesRead
  <2>3. Broken'
    BY <1>1, <1>2, <1>6, <2>1, Zenon DEF Broken
  <2>4. RightSoFar'
    BY <2>2, <2>3, Zenon DEF RightSoFar, Broken
  <2>. QED
    BY <1>3, <2>1, <2>3, <2>4
<1>7. ASSUME Healthy, Exists(p) PROVE rd' \in Reader /\ (Healthy' \/ Broken') /\ RightSoFar'
  <2>1. /\ p \in DOMAIN items /\ Len(items[p]) = n /\ ~IsSession(p)
        /\ items[p] \in Seq(Int)
    BY <1>0, <1>1, <1>7, ItemTypes DEF Exists, IsSession, DocInv
  <2>2. /\ at[p] \in Nat /\ EndOf(p) = at[p] + n /\ EndOf(p) <= c /\ EndOf(p) \in Nat
    BY <1>0, <2>1, Document
  <2>3. /\ rd.bufferSize = delivered /\ rd.endReadOffset = Edge(m) /\ Edge(m) \in Nat
        /\ Edge(m) <= delivered /\ rd.currOffset = at[p] /\ rd.currOffset <= Edge(m)
        /\ rd.overflowOnReadEndPos = (ropen = << >>)
        /\ ropen = << >> => Edge(m) = delivered
        /\ ropen # << >> => EndOf(p) <= Edge(m)
    BY <1>0, <1>7, HealthyReader
  <2>4. CASE Fits(rd, n)
    <3>1. at[p] + n <= Edge(m) /\ at[p] + n <= delivered
      BY <1>0, <1>3, <2>2, <2>3, <2>4 DEF Fits
    <3>2. rd' = [ rd EXCEPT !.currOffset = at[p] + n ]
      BY <1>1, <2>3, <2>4 DEF ReadBytes
    <3>3. /\ rd' \in Reader /\ rd'.currOffset = EndOf(p) /\ rd'.bufferSize = rd.bufferSize
          /\ rd'.endReadOffset = rd.endReadOffset
          /\ rd'.overflowOnReadEndPos = rd.overflowOnReadEndPos
      BY <1>0, <1>3, <2>2, <3>2 DEF Reader
    <3>4. BytesRead(rd, Delivered, n) = items[p]
      <4>. DEFINE b == BytesRead(rd, Delivered, n)
      <4>1. /\ b \in Seq(Int) /\ Len(b) = n
            /\ \A i \in 1 .. n : b[i] = wr.bytes[at[p] + i]
        BY <1>0, <2>3, <2>4, <3>1, DeliveredBytes
      <4>. HIDE DEF b
      <4>2. \A i \in 1 .. n : wr.bytes[at[p] + i] = items[p][i]
        BY <1>0, <2>1 DEF DocInv, Kept
      <4>3. Len(b) = Len(items[p]) /\ \A i \in 1 .. Len(b) : b[i] = items[p][i]
        BY <2>1, <4>1, <4>2
      <4>4. b = items[p]
        BY <2>1, <4>1, <4>3, SeqEqual
      <4>. QED
        BY <4>4 DEF b
    <3>5. RightSoFar'
      <4>1. last'.path = p /\ last'.got = items'[p] /\ p \in DOMAIN items'
        BY <1>1, <1>2, <2>1, <3>4
      <4>. QED
        BY <4>1, Zenon DEF RightSoFar, Exists
    <3>6. Confined' /\ Edge(Len(ropen))' = Edge(m)
      BY <1>0, <1>1, <1>4, <1>7, <3>3, SameSessions DEF Healthy
    <3>7. AtItem'
      <4>1. EndOf(p) = IF Sibling(p) \in DOMAIN items THEN at[Sibling(p)]
                       ELSE IF ropen = << >> THEN c ELSE Edge(m)
        BY <1>0, <1>7, EndOfSession DEF Healthy
      <4>2. rd'.currOffset = IF rpath' \in DOMAIN items' THEN at'[rpath']
                             ELSE IF ropen' = << >> THEN wr'.currOffset ELSE Edge(Len(ropen))'
        BY <1>1, <1>2, <3>3, <3>6, <4>1
      <4>. QED
        BY <4>2, Zenon DEF AtItem, Exists
    <3>8. rd'.currOffset <= rd'.endReadOffset
      BY <2>2, <2>3, <3>1, <3>3
    <3>. QED
      BY <3>3, <3>5, <3>6, <3>7, <3>8, Zenon DEF Healthy
  <2>5. CASE ~Fits(rd, n)
    <3>1. ropen = << >> /\ delivered < c
      BY <1>0, <1>3, <2>2, <2>3, <2>5 DEF Fits
    <3>2. rd' = RaiseError(rd, DataOverflow)
      BY <1>1, <2>3, <2>5, <3>1 DEF ReadBytes
    <3>3. rd' \in Reader /\ Broken'
      <4>1. /\ rd' \in Reader /\ rd'.currOffset = DataOverflow
            /\ rd'.endReadOffset = 0 /\ rd'.bufferSize = 0
        BY <1>3, <2>3, <3>2, Breaks
      <4>2. delivered' < wr'.currOffset
        BY <1>1, <1>2, <3>1
      <4>. QED
        BY <4>1, <4>2, Zenon DEF Broken
    <3>4. last'.got = Zeros(n) /\ Len(Zeros(n)) = n
      BY <1>0, <1>1, <2>5, ZerosType DEF BytesRead
    <3>5. RightSoFar'
      BY <3>3, <3>4, Zenon DEF RightSoFar, Broken
    <3>. QED
      BY <3>3, <3>5
  <2>. QED
    BY <2>4, <2>5
<1>8. ASSUME Healthy, ~Exists(p) PROVE rd' \in Reader /\ Healthy' /\ RightSoFar'
  <2>1. ropen # << >> /\ m \in Nat \ {0}
    BY <1>0, <1>1, <1>3, <1>8 DEF Depth
  <2>2. /\ rd.endReadOffset = Edge(m) /\ Edge(m) \in Nat /\ rd.currOffset = Edge(m)
        /\ rd.overflowOnReadEndPos = FALSE
    BY <1>0, <1>8, <2>1, HealthyReader
  <2>3. ~Fits(rd, n)
    BY <1>0, <2>2 DEF Fits
  <2>4. rd' = rd
    BY <1>1, <2>2, <2>3 DEF ReadBytes
  <2>5. last'.path = p /\ last'.got = Zeros(n) /\ Len(Zeros(n)) = n
    BY <1>0, <1>1, <2>3, ZerosType DEF BytesRead
  <2>6. p \notin DOMAIN items'
    BY <1>2, <1>8 DEF Exists
  <2>7. RightSoFar'
    BY <2>5, <2>6, Zenon DEF RightSoFar, Exists
  <2>8. Confined' /\ Edge(Len(ropen))' = Edge(m)
    BY <1>0, <1>1, <1>4, <1>8, <2>4, SameSessions DEF Healthy
  <2>9. AtItem'
    <3>1. Sibling(p) \notin DOMAIN items
      BY <1>0, <1>8, Nowhere DEF Exists
    <3>2. rpath' \notin DOMAIN items' /\ ropen' # << >> /\ rd'.currOffset = Edge(Len(ropen))'
      BY <1>1, <1>2, <2>1, <2>2, <2>4, <2>8, <3>1
    <3>. QED
      BY <3>2, Zenon DEF AtItem, Exists
  <2>10. rd'.currOffset <= rd'.endReadOffset
    BY <2>2, <2>4
  <2>. QED
    BY <1>3, <2>4, <2>7, <2>8, <2>9, <2>10, Zenon DEF Healthy
<1>9. rd' \in Reader /\ (Healthy' \/ Broken') /\ RightSoFar'
  BY <1>0, <1>6, <1>7, <1>8
<1>10. phase' = "reading" /\ wopen' = << >> /\ delivered' <= wr'.currOffset
  BY <1>0, <1>1, <1>2
<1>11. ReaderInv'
  BY <1>9, <1>10 DEF ReaderInv
<1>. QED
  BY <1>5, <1>9, <1>11

LEMMA RightStays ==
  ASSUME RightSoFar, UNCHANGED <<writerVars, delivered, last>>
  PROVE  RightSoFar'
<1>1. wr' = wr /\ items' = items /\ delivered' = delivered /\ last' = last
  BY DEF writerVars
<1>. QED
  BY <1>1, Zenon DEF RightSoFar, Exists

\* The header of a session that was written, as the reader gets it.
LEMMA HeaderRead ==
  ASSUME DocInv, ReaderType, wopen = << >>, delivered <= wr.currOffset, Healthy,
         Exists(rpath), IsSession(rpath), Fits(rd, HeaderSize)
  PROVE  Locals(rd).startPos + Locals(rd).size = EndOf(rpath) /\ Locals(rd) \in Local
<1>. PICK p \in Paths : p = rpath
  BY DEF ReaderType
<1>. DEFINE b == BytesRead(rd, Delivered, HeaderSize)
            l == Locals(rd)
<1>0. HeaderSize \in Nat \ {0} /\ HeaderSize >= 1
  BY DEF HeaderSize
<1>1. /\ at[p] \in Nat /\ EndOf(p) \in Nat /\ at[p] <= EndOf(p)
      /\ wr.bytes[at[p] + 1] = EndOf(p) - at[p]
  <2>1. /\ p \in DOMAIN items /\ IsSession(p) /\ OwnSize(items[p]) \in Nat
    BY ItemTypes DEF Exists, DocInv
  <2>. QED
    BY <2>1, Document
<1>2. /\ rd.currOffset = at[p] /\ rd.endReadOffset <= delivered /\ rd.currOffset <= rd.endReadOffset
      /\ rd.endReadOffset \in Nat /\ delivered \in Nat
  BY HealthyReader
<1>3. rd.currOffset + HeaderSize <= delivered
  BY <1>0, <1>1, <1>2 DEF Fits
<1>4. \A i \in 1 .. HeaderSize : b[i] = wr.bytes[rd.currOffset + i]
  BY <1>0, <1>3, DeliveredBytes
<1>5. b[1] = EndOf(p) - at[p]
  BY <1>0, <1>1, <1>2, <1>4
<1>6. GetReadPos(rd) = at[p]
  BY <1>2 DEF GetReadPos, GetError
<1>7. GetReadEndPos(rd) \in Nat
  BY <1>2 DEF GetReadEndPos
<1>8. l.startPos = at[p] /\ l.size = b[1] /\ l = [ startPos |-> l.startPos, size |-> l.size,
                                                   readEndPos |-> GetReadEndPos(rd) ]
  BY <1>6 DEF Locals, FromHeader
<1>. HIDE DEF b, l
<1>9. l.size \in Nat /\ l.startPos + l.size = EndOf(p)
  BY <1>1, <1>5, <1>8
<1>10. l \in Local
  BY <1>1, <1>7, <1>8, <1>9 DEF Local
<1>. QED
  BY <1>9, <1>10 DEF l

\* And of one that is not there.
LEMMA NoHeader ==
  ASSUME ReaderType, ~Fits(rd, HeaderSize)
  PROVE  Locals(rd) = [ startPos |-> GetReadPos(rd), size |-> 0, readEndPos |-> GetReadEndPos(rd) ]
         /\ Locals(rd) \in Local
<1>1. Zeros(HeaderSize)[1] = 0
  BY DEF Zeros, HeaderSize
<1>2. BytesRead(rd, Delivered, HeaderSize) = Zeros(HeaderSize)
  BY DEF BytesRead
<1>3. GetReadPos(rd) \in Nat /\ GetReadEndPos(rd) \in Nat
  BY DEF GetReadPos, GetReadEndPos, ReaderType, Reader
<1>. QED
  BY <1>1, <1>2, <1>3 DEF Locals, FromHeader, Local

LEMMA OpenReadKeeps ==
  IInv /\ phase = "reading" /\ OpenRead => ReaderType' /\ ReaderInv'
<1>. SUFFICES ASSUME IInv, phase = "reading", OpenRead
              PROVE  ReaderType' /\ ReaderInv'
  OBVIOUS
<1>. PICK p \in Paths : p = rpath
  BY DEF IInv, ReaderType
<1>. PICK m \in Nat : m = Len(ropen)
  BY DEF IInv, ReaderType
<1>. PICK c \in Nat : c = wr.currOffset
  BY HereIsFree DEF IInv
<1>. DEFINE l == Locals(rd)
            q == ReadBytes(rd, HeaderSize)
<1>0. /\ DocInv /\ ReaderType /\ wopen = << >> /\ delivered <= c
      /\ Healthy \/ Broken
      /\ RightSoFar
  BY DEF IInv, ReaderInv
<1>1. /\ ropen' = Append(ropen, l) /\ rpath' = Child(p) /\ delivered' = delivered
      /\ rd' = SetReadEndPos(q, l.startPos + l.size)
      /\ phase' = phase /\ UNCHANGED writerVars /\ last' = last
      /\ IF Exists(p) THEN Len(items[p]) = 0 ELSE Depth(p) > 0
  BY DEF OpenRead, Expects, EnterSession
<1>2. wr' = wr /\ items' = items /\ at' = at /\ wopen' = wopen
  BY <1>1 DEF writerVars
<1>3. /\ rd \in Reader /\ delivered \in Nat /\ ropen \in Seq(Local) /\ Len(p) = m + 1
      /\ Child(p) \in Paths /\ Len(Child(p)) = Len(p) + 1
  BY <1>0, ChildPath DEF ReaderType
<1>4. HeaderSize = 4 /\ HeaderSize \in Nat
  BY DEF HeaderSize
<1>5. rd' \in Reader /\ l \in Local => ReaderType'
  <2>. HIDE DEF l
  <2>1. l \in Local => ropen' \in Seq(Local) /\ Len(ropen') = m + 1
    BY <1>1, <1>3, AppendProperties
  <2>. QED
    BY <1>1, <1>3, <2>1 DEF ReaderType
<1>6. RightSoFar'
  BY <1>0, <1>1, RightStays
<1>. HIDE DEF l, q
<1>7. ASSUME Broken PROVE rd' \in Reader /\ Broken' /\ l \in Local
  <2>1. ~Fits(rd, HeaderSize) /\ q = rd
    BY <1>0, <1>4, <1>7, BrokenReader DEF q
  <2>2. l \in Local
    BY <1>0, <2>1, NoHeader DEF l
  <2>3. l.startPos + l.size \in Nat
    BY <2>2 DEF Local
  <2>4. rd' = rd
    BY <1>1, <1>7, <2>1, <2>3, BrokenReader
  <2>5. Broken'
    BY <1>1, <1>2, <1>7, <2>4, Zenon DEF Broken
  <2>. QED
    BY <1>3, <2>2, <2>4, <2>5
<1>8. ASSUME Healthy, Exists(p) PROVE rd' \in Reader /\ (Healthy' \/ Broken') /\ l \in Local
  <2>1. p \in DOMAIN items /\ items[p] = << >> /\ IsSession(p) /\ OwnSize(items[p]) = 4
    <3>1. p \in DOMAIN items /\ items[p] \in Seq(Int) /\ Len(items[p]) = 0
      BY <1>0, <1>1, <1>8, ItemTypes DEF Exists, DocInv
    <3>2. items[p] = << >>
      BY <3>1
    <3>. QED
      BY <3>1, <3>2 DEF IsSession, OwnSize, HeaderSize
  <2>2. at[p] \in Nat /\ EndOf(p) \in Nat /\ at[p] + 4 <= EndOf(p) /\ EndOf(p) <= c
    BY <1>0, <2>1, Document
  <2>3. /\ rd.bufferSize = delivered /\ rd.endReadOffset = Edge(m) /\ Edge(m) \in Nat
        /\ Edge(m) <= delivered /\ rd.currOffset = at[p] /\ rd.currOffset <= Edge(m)
        /\ rd.overflowOnReadEndPos = (ropen = << >>)
        /\ ropen = << >> => Edge(m) = delivered
        /\ ropen # << >> => EndOf(p) <= Edge(m)
    BY <1>0, <1>8, HealthyReader
  <2>4. CASE Fits(rd, HeaderSize)
    <3>1. l \in Local /\ l.startPos + l.size = EndOf(p)
      BY <1>0, <1>8, <2>1, <2>4, HeaderRead DEF l
    <3>2. at[p] + 4 <= Edge(m) /\ q = [ rd EXCEPT !.currOffset = at[p] + 4 ]
      BY <1>4, <2>3, <2>4 DEF q, ReadBytes, Fits
    <3>3. /\ q \in Reader /\ q.currOffset = at[p] + 4 /\ q.bufferSize = delivered
          /\ q.endReadOffset = Edge(m) /\ q.currOffset <= q.endReadOffset
      BY <1>3, <2>2, <2>3, <3>2 DEF Reader
    <3>4. GetError(q) = NoError
      BY <3>3 DEF GetError
    <3>5. CASE EndOf(p) <= delivered
      <4>1. rd' = [ q EXCEPT !.overflowOnReadEndPos = FALSE, !.endReadOffset = EndOf(p) ]
        <5>1. q.bufferSize >= EndOf(p) /\ EndOf(p) # 0
          BY <1>3, <2>2, <3>3, <3>5
        <5>2. rd' = SetReadEndPos(q, EndOf(p))
          BY <1>1, <3>1
        <5>. QED
          BY <3>4, <5>1, <5>2, Limited
      <4>2. /\ rd' \in Reader /\ rd'.currOffset = at[p] + 4 /\ rd'.bufferSize = delivered
            /\ rd'.endReadOffset = EndOf(p) /\ rd'.overflowOnReadEndPos = FALSE
        BY <2>2, <3>3, <4>1 DEF Reader
      <4>3. l.readEndPos = IF ropen = << >> THEN 0 ELSE Edge(m)
        BY <2>3 DEF l, Locals, GetReadEndPos
      <4>4. EndOf(p) <= Edge(m) /\ EndOf(p) \in Nat \ {0}
        BY <2>2, <2>3, <3>5
      <4>5. Confined' /\ ropen' # << >> /\ Edge(Len(ropen))' = EndOf(p)
        BY <1>0, <1>1, <1>8, <3>1, <3>5, <4>2, <4>3, <4>4, OneMore DEF Healthy
      <4>6. AtItem'
        <5>1. IF Child(p) \in DOMAIN items THEN at[Child(p)] = at[p] + 4
              ELSE EndOf(p) = at[p] + 4
          BY <1>0, <1>4, <2>1, Inside
        <5>2. rd'.currOffset = IF rpath' \in DOMAIN items' THEN at'[rpath']
                               ELSE IF ropen' = << >> THEN wr'.currOffset ELSE Edge(Len(ropen))'
          BY <1>1, <1>2, <4>2, <4>5, <5>1
        <5>. QED
          BY <5>2, Zenon DEF AtItem, Exists
      <4>7. rd'.currOffset <= rd'.endReadOffset
        BY <2>2, <4>2
      <4>. QED
        BY <3>1, <4>2, <4>5, <4>6, <4>7, Zenon DEF Healthy
    <3>6. CASE ~(EndOf(p) <= delivered)
      <4>1. rd' = RaiseError(q, DataOverflow)
        BY <1>1, <1>3, <2>2, <3>1, <3>3, <3>6 DEF SetReadEndPos
      <4>2. /\ rd' \in Reader /\ rd'.currOffset = DataOverflow
            /\ rd'.endReadOffset = 0 /\ rd'.bufferSize = 0
        BY <3>3, <4>1, Breaks
      <4>3. delivered' < wr'.currOffset
        BY <1>1, <1>2, <1>3, <2>2, <3>6
      <4>. QED
        BY <3>1, <4>2, <4>3, Zenon DEF Broken
    <3>. QED
      BY <3>5, <3>6
  <2>5. CASE ~Fits(rd, HeaderSize)
    <3>1. ropen = << >> /\ delivered < c
      BY <1>3, <1>4, <2>2, <2>3, <2>5 DEF Fits
    <3>2. q = RaiseError(rd, DataOverflow)
      BY <2>3, <2>5, <3>1 DEF q, ReadBytes
    <3>3. /\ q \in Reader /\ q.currOffset = DataOverflow
          /\ q.endReadOffset = 0 /\ q.bufferSize = 0
      BY <1>3, <2>3, <3>2, Breaks
    <3>4. GetError(q) # NoError /\ RaiseError(q, DataOverflow) = q
      BY <3>3 DEF GetError, RaiseError, NoError, DataOverflow
    <3>5. rd' = q
      BY <1>1, <3>4 DEF SetReadEndPos
    <3>6. delivered' < wr'.currOffset
      BY <1>1, <1>2, <3>1
    <3>7. Broken'
      BY <3>3, <3>5, <3>6, Zenon DEF Broken
    <3>8. l \in Local
      BY <1>0, <2>5, NoHeader DEF l
    <3>. QED
      BY <3>3, <3>5, <3>7, <3>8
  <2>. QED
    BY <2>4, <2>5
<1>9. ASSUME Healthy, ~Exists(p) PROVE rd' \in Reader /\ Healthy' /\ l \in Local
  <2>1. ropen # << >> /\ m \in Nat \ {0}
    BY <1>0, <1>1, <1>3, <1>9 DEF Depth
  <2>2. /\ rd.endReadOffset = Edge(m) /\ Edge(m) \in Nat /\ rd.currOffset = Edge(m)
        /\ rd.overflowOnReadEndPos = FALSE /\ rd.bufferSize = delivered
        /\ Edge(m) <= delivered /\ 0 < Edge(m)
    BY <1>0, <1>9, <2>1, HealthyReader
  <2>3. ~Fits(rd, HeaderSize)
    BY <1>4, <2>2 DEF Fits
  <2>4. q = rd
    BY <2>2, <2>3 DEF q, ReadBytes
  <2>5. GetReadPos(rd) = Edge(m) /\ GetError(rd) = NoError /\ GetReadEndPos(rd) = Edge(m)
    BY <2>2 DEF GetReadPos, GetError, GetReadEndPos
  <2>6. /\ l \in Local /\ l.startPos + l.size = Edge(m) /\ l.readEndPos = Edge(m)
    BY <1>0, <2>2, <2>3, <2>5, NoHeader DEF l
  <2>7. rd' = [ rd EXCEPT !.overflowOnReadEndPos = FALSE, !.endReadOffset = Edge(m) ]
    <3>1. rd.bufferSize >= Edge(m) /\ Edge(m) # 0
      BY <1>3, <2>2
    <3>2. rd' = SetReadEndPos(rd, Edge(m))
      BY <1>1, <2>4, <2>6
    <3>. QED
      BY <2>5, <3>1, <3>2, Limited
  <2>8. /\ rd' \in Reader /\ rd'.currOffset = Edge(m) /\ rd'.bufferSize = delivered
        /\ rd'.endReadOffset = Edge(m) /\ rd'.overflowOnReadEndPos = FALSE
    BY <1>3, <2>2, <2>7 DEF Reader
  <2>9. Confined' /\ ropen' # << >> /\ Edge(Len(ropen))' = Edge(m)
    <3>. PICK e \in Nat \ {0} : e = Edge(m)
      BY <2>2
    <3>. QED
      BY <1>0, <1>1, <1>9, <2>1, <2>2, <2>6, <2>8, OneMore DEF Healthy
  <2>10. AtItem'
    <3>1. Child(p) \notin DOMAIN items
      BY <1>0, <1>9, Nowhere DEF Exists
    <3>2. rpath' \notin DOMAIN items' /\ ropen' # << >> /\ rd'.currOffset = Edge(Len(ropen))'
      BY <1>1, <1>2, <2>8, <2>9, <3>1
    <3>. QED
      BY <3>2, Zenon DEF AtItem, Exists
  <2>11. rd'.currOffset <= rd'.endReadOffset
    BY <2>2, <2>8
  <2>. QED
    BY <2>6, <2>8, <2>9, <2>10, <2>11, Zenon DEF Healthy
<1>10. rd' \in Reader /\ (Healthy' \/ Broken') /\ l \in Local
  BY <1>0, <1>7, <1>8, <1>9
<1>11. phase' = "reading" /\ wopen' = << >> /\ delivered' <= wr'.currOffset
  BY <1>0, <1>1, <1>2
<1>12. ReaderInv'
  BY <1>6, <1>10, <1>11 DEF ReaderInv
<1>. QED
  BY <1>5, <1>10, <1>12

\* Where the reader is when it leaves a session.
LEMMA Outside ==
  ASSUME ReaderType, ropen # << >>
  PROVE  /\ Front(ropen) \in Seq(Local) /\ Len(Front(ropen)) = Len(ropen) - 1
         /\ Last(ropen) = ropen[Len(ropen)] /\ Last(ropen) \in Local
         /\ Front(rpath) \in Paths /\ Len(Front(rpath)) = Len(ropen)
         /\ Front(rpath) = Upto(rpath, Len(ropen))
         /\ Front(Front(rpath)) = Upto(rpath, Len(ropen) - 1)
         /\ Sibling(Front(rpath)) \in Paths /\ Len(Sibling(Front(rpath))) = Len(ropen)
<1>. PICK p \in Paths : p = rpath
  BY DEF ReaderType
<1>. PICK m \in Nat \ {0} : m = Len(ropen)
  BY DEF ReaderType
<1>. PICK j \in Nat : j = m - 1
  OBVIOUS
<1>1. Front(ropen) \in Seq(Local) /\ Len(Front(ropen)) = j
  <2>1. /\ Front(ropen) = SubSeq(ropen, 1, Len(ropen) - 1) /\ 1 \in Int /\ j \in Int
        /\ Len(ropen) - 1 = j
    BY DEF Front
  <2>2. \A k \in 1 .. j : ropen[k] \in Local
    BY ElementOfSeq DEF ReaderType
  <2>3. Front(ropen) = SubSeq(ropen, 1, j)
    BY <2>1
  <2>4. /\ SubSeq(ropen, 1, j) \in Seq(Local)
        /\ Len(SubSeq(ropen, 1, j)) = IF 1 <= j THEN j - 1 + 1 ELSE 0
    BY <2>1, <2>2, SubSeqProperties DEF ReaderType
  <2>. QED
    BY <2>3, <2>4
<1>2. Last(ropen) = ropen[m] /\ ropen[m] \in Local
  BY ElementOfSeq DEF Last, ReaderType
<1>3. /\ Len(p) = m + 1 /\ Len(p) - 1 = m /\ Front(p) = Upto(p, Len(p) - 1)
      /\ m \in 1 .. Len(p)
  BY PathParts DEF ReaderType
<1>4. Front(p) = Upto(p, m)
  BY <1>3
<1>5. /\ Upto(p, m) \in Paths /\ Len(Upto(p, m)) = m
      /\ Front(Upto(p, m)) = Upto(p, m - 1)
  BY <1>3, UptoPath
<1>6. Sibling(Front(p)) \in Paths /\ Len(Sibling(Front(p))) = m
  BY <1>4, <1>5, SiblingPath
<1>. QED
  BY <1>1, <1>2, <1>4, <1>5, <1>6

LEMMA CloseReadKeeps ==
  IInv /\ phase = "reading" /\ CloseRead => ReaderType' /\ ReaderInv'
<1>. SUFFICES ASSUME IInv, phase = "reading", CloseRead
              PROVE  ReaderType' /\ ReaderInv'
  OBVIOUS
<1>. PICK p \in Paths : p = rpath
  BY DEF IInv, ReaderType
<1>. PICK c \in Nat : c = wr.currOffset
  BY HereIsFree DEF IInv
<1>0. /\ DocInv /\ ReaderType /\ wopen = << >> /\ delivered <= c
      /\ Healthy \/ Broken
      /\ RightSoFar
  BY DEF IInv, ReaderInv
<1>1. /\ ropen # << >> /\ ropen' = Front(ropen) /\ delivered' = delivered
      /\ rd' = LeaveSession(rd, Last(ropen)) /\ rpath' = Sibling(Front(p))
      /\ phase' = phase /\ UNCHANGED writerVars /\ last' = last
  BY DEF CloseRead
<1>. PICK m \in Nat \ {0} : m = Len(ropen)
  BY <1>0, <1>1 DEF ReaderType
<1>2. wr' = wr /\ items' = items /\ at' = at /\ wopen' = wopen
  BY <1>1 DEF writerVars
<1>. DEFINE f == Front(p)
            s == Last(ropen)
<1>3. /\ ropen' \in Seq(Local) /\ Len(ropen') = m - 1
      /\ s = ropen[m] /\ s \in Local
      /\ f \in Paths /\ Len(f) = m /\ f = Upto(p, m) /\ Front(f) = Upto(p, m - 1)
      /\ Sibling(f) \in Paths /\ Len(Sibling(f)) = m
      /\ rpath' = Sibling(f) /\ rd' = LeaveSession(rd, s)
  BY <1>0, <1>1, Outside
<1>. HIDE DEF f, s
<1>4. rd \in Reader /\ delivered \in Nat
  BY <1>0 DEF ReaderType
<1>5. rd' \in Reader => ReaderType'
  BY <1>1, <1>3, <1>4 DEF ReaderType
<1>6. RightSoFar'
  BY <1>0, <1>1, RightStays
<1>7. s.startPos + s.size \in Nat /\ s.readEndPos \in Nat
  BY <1>3 DEF Local
<1>8. ASSUME Broken PROVE rd' \in Reader /\ Broken'
  <2>. DEFINE e == s.startPos + s.size
  <2>1. SetReadPos(rd, e) = rd /\ SetReadEndPos(rd, s.readEndPos) = rd
    <3>. HIDE DEF e
    <3>. QED
      BY <1>7, <1>8, BrokenReader DEF e
  <2>2. rd' = rd
    BY <1>3, <2>1 DEF LeaveSession
  <2>3. Broken'
    BY <1>1, <1>2, <1>8, <2>2, Zenon DEF Broken
  <2>. QED
    BY <1>4, <2>2, <2>3
<1>9. ASSUME Healthy PROVE rd' \in Reader /\ Healthy'
  <2>. PICK j \in Nat : j = m - 1
    OBVIOUS
  <2>1. /\ rd.endReadOffset = Edge(m) /\ rd.bufferSize = delivered
        /\ rd.currOffset <= rd.endReadOffset /\ Edge(m) \in Nat /\ Edge(j) \in Nat
    <3>1. m \in 0 .. Len(ropen) /\ j \in 0 .. Len(ropen)
      OBVIOUS
    <3>. QED
      BY <1>0, <1>9, <3>1, EdgeType DEF Healthy, Confined
  <2>2. /\ Knows(m) /\ 0 < Edge(m) /\ Edge(m) <= Edge(j) /\ Edge(m) <= delivered
        /\ s.readEndPos = IF m = 1 THEN 0 ELSE Edge(j)
    <3>1. m \in 1 .. Len(ropen)
      OBVIOUS
    <3>2. /\ Knows(m) /\ 0 < Edge(m) /\ Edge(m) <= Edge(m - 1) /\ Edge(m) <= delivered
          /\ ropen[m].readEndPos = IF m = 1 THEN 0 ELSE Edge(m - 1)
      BY <1>9, <3>1 DEF Healthy, Confined
    <3>. QED
      BY <1>3, <3>2
  <2>3. j > 0 => Knows(j) /\ Edge(j) <= delivered
    <3>1. j > 0 => j \in 1 .. Len(ropen)
      OBVIOUS
    <3>. QED
      BY <1>9, <3>1 DEF Healthy, Confined
  <2>4. s.startPos + s.size = Edge(m)
    BY <1>3 DEF Edge
  <2>. DEFINE q == SetReadPos(rd, Edge(m))
  <2>5. q = [ rd EXCEPT !.currOffset = Edge(m) ]
    BY <1>4, <2>1, <2>2 DEF SetReadPos, GetError
  <2>6. /\ q \in Reader /\ q.currOffset = Edge(m) /\ q.endReadOffset = Edge(m)
        /\ q.bufferSize = delivered
    BY <1>4, <2>1, <2>5 DEF Reader
  <2>7. rd' = SetReadEndPos(q, s.readEndPos)
    BY <1>3, <2>4 DEF LeaveSession
  <2>. HIDE DEF q
  <2>8. GetError(q) = NoError
    BY <2>1, <2>6 DEF GetError
  <2>9. /\ rd' \in Reader /\ rd'.bufferSize = delivered /\ rd'.currOffset = Edge(m)
        /\ rd'.endReadOffset = Edge(j) /\ rd'.overflowOnReadEndPos = (m = 1)
    <3>1. CASE m = 1
      <4>1. rd' = [ q EXCEPT !.overflowOnReadEndPos = TRUE, !.endReadOffset = delivered ]
        <5>1. s.readEndPos = 0 /\ q.bufferSize >= s.readEndPos
          BY <1>4, <2>2, <2>6, <3>1
        <5>. QED
          BY <2>6, <2>7, <2>8, <5>1, Limited
      <4>2. Edge(j) = delivered
        BY <3>1 DEF Edge
      <4>. QED
        BY <1>4, <2>6, <3>1, <4>1, <4>2 DEF Reader
    <3>2. CASE m # 1
      <4>1. rd' = [ q EXCEPT !.overflowOnReadEndPos = FALSE, !.endReadOffset = Edge(j) ]
        <5>1. s.readEndPos = Edge(j) /\ q.bufferSize >= Edge(j) /\ Edge(j) # 0
          BY <1>4, <2>1, <2>2, <2>3, <2>6, <3>2
        <5>2. rd' = SetReadEndPos(q, Edge(j))
          BY <2>7, <5>1
        <5>. QED
          BY <2>8, <5>1, <5>2, Limited
      <4>. QED
        BY <2>1, <2>6, <3>2, <4>1 DEF Reader
    <3>. QED
      BY <3>1, <3>2
  <2>10. Confined' /\ Edge(Len(ropen))' = Edge(j)
    <3>1. rd'.endReadOffset = Edge(Len(ropen) - 1) /\ Edge(Len(ropen) - 1) = Edge(j)
      BY <2>9
    <3>. QED
      BY <1>0, <1>1, <1>9, <2>9, <3>1, OneLess DEF Healthy
  <2>11. AtItem'
    <3>1. Edge(m) = IF Sibling(f) \in DOMAIN items THEN at[Sibling(f)]
                    ELSE IF j = 0 THEN c ELSE Edge(j)
      <4>1. CASE Exists(f)
        <5>1. Edge(m) = EndOf(f)
          BY <1>3, <2>2, <4>1 DEF Knows
        <5>2. IF Sibling(f) \in DOMAIN items THEN at[Sibling(f)] = EndOf(f)
              ELSE EndOf(f) = IF Len(f) > 1 THEN EndOf(Front(f)) ELSE c
          BY <1>0, <4>1, Behind DEF Exists
        <5>3. j > 0 => EndOf(Front(f)) = Edge(j)
          <6>1. SUFFICES ASSUME j > 0 PROVE EndOf(Front(f)) = Edge(j)
            OBVIOUS
          <6>2. Front(f) \in DOMAIN items
            BY <1>0, <1>3, <4>1, <6>1, Document DEF Exists
          <6>3. Front(f) = Upto(rpath, j)
            BY <1>3
          <6>. QED
            BY <2>3, <6>1, <6>2, <6>3 DEF Knows, Exists
        <5>. QED
          BY <1>3, <5>1, <5>2, <5>3
      <4>2. CASE ~Exists(f)
        <5>1. m > 1 /\ Edge(m) = Edge(m - 1)
          BY <1>3, <2>2, <4>2 DEF Knows
        <5>2. Sibling(f) \notin DOMAIN items
          BY <1>0, <1>3, <4>2, Nowhere DEF Exists
        <5>. QED
          BY <5>1, <5>2
      <4>. QED
        BY <4>1, <4>2
    <3>2. (ropen' = << >>) <=> j = 0
      BY <1>3
    <3>3. rd'.currOffset = IF rpath' \in DOMAIN items' THEN at'[rpath']
                           ELSE IF ropen' = << >> THEN wr'.currOffset ELSE Edge(Len(ropen))'
      BY <1>2, <1>3, <2>9, <2>10, <3>1, <3>2
    <3>. QED
      BY <3>3, Zenon DEF AtItem, Exists
  <2>12. rd'.currOffset <= rd'.endReadOffset
    BY <2>2, <2>9
  <2>. QED
    BY <2>9, <2>10, <2>11, <2>12, Zenon DEF Healthy
<1>10. rd' \in Reader /\ (Healthy' \/ Broken')
  BY <1>0, <1>8, <1>9
<1>11. phase' = "reading" /\ wopen' = << >> /\ delivered' <= wr'.currOffset
  BY <1>0, <1>1, <1>2
<1>12. ReaderInv'
  BY <1>6, <1>10, <1>11 DEF ReaderInv
<1>. QED
  BY <1>5, <1>10, <1>12

LEMMA DeliverKeeps ==
  IInv /\ (\E n \in 0 .. WrittenBytesCount(wr) : Deliver(n)) => ReaderType' /\ ReaderInv'
<1>. SUFFICES ASSUME IInv, NEW n \in 0 .. WrittenBytesCount(wr), Deliver(n)
              PROVE  ReaderType' /\ ReaderInv'
  OBVIOUS
<1>. PICK c \in Nat : c = wr.currOffset
  BY HereIsFree DEF IInv
<1>1. /\ phase = "writing" /\ wopen = << >> /\ phase' = "reading"
      /\ delivered' = n /\ rd' = NewReader(n) /\ UNCHANGED writerVars
      /\ rpath' = rpath /\ ropen' = ropen /\ last' = last
  BY DEF Deliver
<1>2. wr' = wr /\ items' = items /\ at' = at /\ wopen' = wopen
  BY <1>1 DEF writerVars
<1>3. DocInv /\ ReaderType /\ rpath = << 1 >> /\ ropen = << >> /\ last.got = << >>
      /\ last.path = << >>
  BY <1>1 DEF IInv, ReaderInv
<1>4. WrittenBytesCount(wr) = c /\ n \in Nat /\ n <= c
  <2>1. WrittenBytesCount(wr) = c
    BY <1>3 DEF DocInv, WriterType, AtEnd, WrittenBytesCount, Larger, Writer
  <2>. QED
    BY <2>1
<1>5. /\ rd' \in Reader /\ rd'.currOffset = 0 /\ rd'.endReadOffset = n
      /\ rd'.bufferSize = n /\ rd'.overflowOnReadEndPos = TRUE
  BY <1>1, <1>4 DEF NewReader, Reader
<1>6. ReaderType'
  BY <1>1, <1>3, <1>4, <1>5 DEF ReaderType
<1>7. Confined'
  <2>1. ropen' = << >> /\ Len(ropen') = 0 /\ (ropen' = << >>) = TRUE
    BY <1>1, <1>3
  <2>2. Edge(Len(ropen))' = delivered'
    BY <2>1, Zenon DEF Edge
  <2>3. \A k \in 1 .. Len(ropen') :
          /\ Knows(k)' /\ 0 < Edge(k)' /\ Edge(k)' <= Edge(k - 1)' /\ Edge(k)' <= delivered'
          /\ ropen'[k].readEndPos = IF k = 1 THEN 0 ELSE Edge(k - 1)'
    BY <2>1
  <2>4. /\ rd'.bufferSize = delivered' /\ rd'.endReadOffset = Edge(Len(ropen))'
        /\ rd'.overflowOnReadEndPos = (ropen' = << >>)
    BY <1>1, <1>5, <2>1, <2>2
  <2>. QED
    BY <2>3, <2>4, Zenon DEF Confined
<1>8. AtItem'
  <2>1. IF << 1 >> \in DOMAIN items THEN at[<< 1 >>] = 0 ELSE c = 0
    BY <1>1, <1>3, FirstItem
  <2>2. rd'.currOffset = IF rpath' \in DOMAIN items' THEN at'[rpath']
                         ELSE IF ropen' = << >> THEN wr'.currOffset ELSE Edge(Len(ropen))'
    BY <1>1, <1>2, <1>3, <1>5, <2>1
  <2>. QED
    BY <2>2, Zenon DEF AtItem, Exists
<1>9. Healthy'
  <2>1. rd'.currOffset <= rd'.endReadOffset
    BY <1>4, <1>5
  <2>. QED
    BY <1>7, <1>8, <2>1, Zenon DEF Healthy
<1>10. RightSoFar'
  <2>1. << >> = Zeros(Len(<< >>))
    <3>1. Zeros(0) \in Seq(Nat) /\ Len(Zeros(0)) = 0 /\ Len(<< >>) = 0
      BY ZerosType
    <3>2. Zeros(0) = << >>
      BY <3>1
    <3>. QED
      BY <3>1, <3>2
  <2>2. << >> \notin DOMAIN items'
    BY <1>2, <1>3 DEF DocInv, WriterType, Paths
  <2>3. last'.got = Zeros(Len(last'.got)) /\ last'.path \notin DOMAIN items'
    BY <1>1, <1>3, <2>1, <2>2
  <2>. QED
    BY <2>3, Zenon DEF RightSoFar, Exists
<1>11. phase' = "reading" /\ wopen' = << >> /\ delivered' <= wr'.currOffset
  BY <1>1, <1>2, <1>4
<1>12. ReaderInv'
  BY <1>9, <1>10, <1>11 DEF ReaderInv
<1>. QED
  BY <1>6, <1>12

LEMMA SameReader ==
  ASSUME IInv, UNCHANGED <<writerVars, readerVars>>,
         \/ phase' = phase
         \/ phase = "reading" /\ phase' = "done" /\ ropen = << >> /\ ~Exists(rpath)
  PROVE  IInv'
<1>1. /\ wr' = wr /\ wpath' = wpath /\ wopen' = wopen /\ items' = items /\ at' = at
      /\ delivered' = delivered /\ rd' = rd /\ rpath' = rpath /\ ropen' = ropen /\ last' = last
      /\ UNCHANGED writerVars
  BY DEF writerVars, readerVars
<1>2. DocInv'
  BY <1>1, SameDocument DEF IInv
<1>3. ReaderType'
  BY <1>1, Zenon DEF IInv, ReaderType
<1>4. RightSoFar' <=> RightSoFar
  BY <1>1, Zenon DEF RightSoFar, Exists
<1>5. /\ Exists(rpath)' <=> Exists(rpath)
      /\ (Broken' <=> Broken)
  BY <1>1, Zenon DEF Exists, Broken
<1>6. Healthy => Healthy'
  <2>1. SUFFICES ASSUME Healthy PROVE Healthy'
    OBVIOUS
  <2>2. Confined' /\ Edge(Len(ropen))' = Edge(Len(ropen))
    BY <1>1, <2>1, SameSessions DEF IInv, Healthy
  <2>3. rd.currOffset = IF rpath \in DOMAIN items THEN at[rpath]
                        ELSE IF ropen = << >> THEN wr.currOffset ELSE Edge(Len(ropen))
    BY <2>1 DEF Healthy, AtItem, Exists
  <2>4. rd'.currOffset = IF rpath' \in DOMAIN items' THEN at'[rpath']
                         ELSE IF ropen' = << >> THEN wr'.currOffset ELSE Edge(Len(ropen))'
    BY <1>1, <2>2, <2>3, Zenon
  <2>5. AtItem'
    BY <2>4, Zenon DEF AtItem, Exists
  <2>6. rd'.currOffset <= rd'.endReadOffset
    BY <1>1, <2>1, Zenon DEF Healthy
  <2>. QED
    BY <2>2, <2>5, <2>6, Zenon DEF Healthy
<1>7. ReaderInv'
  <2>1. CASE phase = "writing"
    <3>1. phase' = "writing"
      BY <2>1
    <3>. QED
      BY <1>1, <2>1, <3>1 DEF IInv, ReaderInv
  <2>2. CASE phase # "writing"
    <3>1. phase' # "writing"
      BY <2>2
    <3>2. wopen = << >> /\ delivered <= wr.currOffset /\ (Healthy \/ Broken) /\ RightSoFar
      BY <2>2 DEF IInv, ReaderInv
    <3>3. phase' = "done" => ropen = << >> /\ ~Exists(rpath)
      BY <2>2 DEF IInv, ReaderInv
    <3>4. phase' = "done" => ropen' = << >> /\ ~Exists(rpath)'
      BY <1>1, <1>5, <3>3
    <3>. QED
      BY <1>1, <1>4, <1>5, <1>6, <3>1, <3>2, <3>4, Zenon DEF ReaderInv
  <2>. QED
    BY <2>1, <2>2
<1>. QED
  BY <1>2, <1>3, <1>7 DEF IInv

-----------------------------------------------------------------------------
(***************************************************************************)
(* The inductive invariant.                                                *)
(***************************************************************************)
LEMMA InvInit == Init => IInv
<1>. SUFFICES ASSUME Init PROVE IInv
  OBVIOUS
<1>1. DocInv
  BY DocInit
<1>2. rd = NewReader(0) /\ delivered = 0 /\ rpath = << 1 >> /\ ropen = << >>
      /\ phase = "writing" /\ last = [ path |-> << >>, got |-> << >> ]
  BY DEF Init
<1>3. NewReader(0) \in Reader
  BY DEF NewReader, Reader
<1>4. << 1 >> \in Paths /\ Len(<< 1 >>) = 1
  BY DEF Paths
<1>5. ReaderType
  BY <1>2, <1>3, <1>4 DEF ReaderType
<1>6. ReaderInv
  BY <1>2 DEF ReaderInv
<1>. QED
  BY <1>1, <1>5, <1>6 DEF IInv

\* While the document is written nobody reads.
LEMMA WriterAlone ==
  ASSUME IInv, phase = "writing", phase' = phase, UNCHANGED readerVars, DocInv'
  PROVE  IInv'
<1>1. delivered' = delivered /\ rd' = rd /\ rpath' = rpath /\ ropen' = ropen /\ last' = last
  BY DEF readerVars
<1>2. ReaderType'
  BY <1>1, Zenon DEF IInv, ReaderType
<1>3. ReaderInv'
  BY <1>1 DEF IInv, ReaderInv
<1>. QED
  BY <1>2, <1>3 DEF IInv

LEMMA InvNext == IInv /\ [Next]_vars => IInv'
<1>. SUFFICES ASSUME IInv, [Next]_vars PROVE IInv'
  OBVIOUS
<1>1. DocInv
  BY DEF IInv
<1>2. CASE \E n \in ValueSizes : WriteValue(n)
  <2>1. phase = "writing" /\ phase' = phase /\ UNCHANGED readerVars
    BY <1>2 DEF WriteValue, MayWrite
  <2>2. DocInv'
    BY <1>1, <1>2, WriteValueKeeps
  <2>. QED
    BY <2>1, <2>2, WriterAlone
<1>3. CASE OpenWrite
  <2>1. phase = "writing" /\ phase' = phase /\ UNCHANGED readerVars
    BY <1>3 DEF OpenWrite, MayWrite
  <2>2. DocInv'
    BY <1>1, <1>3, OpenWriteKeeps
  <2>. QED
    BY <2>1, <2>2, WriterAlone
<1>4. CASE CloseWrite
  <2>1. phase = "writing" /\ phase' = phase /\ UNCHANGED readerVars
    BY <1>4 DEF CloseWrite
  <2>2. DocInv'
    BY <1>1, <1>4, CloseWriteKeeps
  <2>. QED
    BY <2>1, <2>2, WriterAlone
<1>5. CASE \E n \in 0 .. WrittenBytesCount(wr) : Deliver(n)
  <2>1. UNCHANGED writerVars
    BY <1>5 DEF Deliver
  <2>. QED
    BY <1>1, <1>5, <2>1, DeliverKeeps, SameDocument DEF IInv
<1>6. CASE \E n \in ValueSizes : ReadValue(n)
  <2>1. phase = "reading" /\ UNCHANGED writerVars
    BY <1>6 DEF ReadValue, Expects
  <2>. QED
    BY <1>1, <1>6, <2>1, ReadValueKeeps, SameDocument DEF IInv
<1>7. CASE OpenRead
  <2>1. phase = "reading" /\ UNCHANGED writerVars
    BY <1>7 DEF OpenRead, Expects
  <2>. QED
    BY <1>1, <1>7, <2>1, OpenReadKeeps, SameDocument DEF IInv
<1>8. CASE CloseRead
  <2>1. phase = "reading" /\ UNCHANGED writerVars
    BY <1>8 DEF CloseRead
  <2>. QED
    BY <1>1, <1>8, <2>1, CloseReadKeeps, SameDocument DEF IInv
<1>9. CASE Finish
  <2>1. /\ phase = "reading" /\ phase' = "done" /\ ropen = << >> /\ ~Exists(rpath)
        /\ UNCHANGED <<writerVars, readerVars>>
    BY <1>9 DEF Finish
  <2>. QED
    BY <2>1, SameReader
<1>10. CASE UNCHANGED vars
  <2>1. phase' = phase /\ UNCHANGED <<writerVars, readerVars>>
    BY <1>10 DEF vars, writerVars, readerVars
  <2>. QED
    BY <2>1, SameReader
<1>. QED
  BY <1>2, <1>3, <1>4, <1>5, <1>6, <1>7, <1>8, <1>9, <1>10 DEF Next

\* What the properties need of it.
LEMMA Written ==
  ASSUME IInv
  PROVE  /\ WrittenBytesCount(wr) = wr.currOffset /\ wr.currOffset \in Nat
         /\ rd \in Reader /\ delivered \in Nat /\ DocInv /\ ReaderType
<1>1. WrittenBytesCount(wr) = wr.currOffset /\ wr.currOffset \in Nat
  BY DEF IInv, DocInv, WriterType, AtEnd, WrittenBytesCount, Larger, Writer
<1>. QED
  BY <1>1 DEF IInv, ReaderType

LEMMA WholeIsHealthy ==
  ASSUME IInv, AllArrived
  PROVE  phase # "writing" /\ wopen = << >> /\ Healthy /\ delivered = wr.currOffset
<1>1. phase # "writing" /\ delivered = wr.currOffset /\ wr.currOffset \in Nat
  BY Written DEF AllArrived
<1>2. ~Broken
  BY <1>1 DEF Broken
<1>. QED
  BY <1>1, <1>2 DEF IInv, ReaderInv

-----------------------------------------------------------------------------
\* Whatever the two versions of the objects are, and however their sessions
\* nest: a reader with the whole document gets at every place what was
\* written at that place, and zeros where nothing was (the jump and the zero
\* fill of ext/growable.h).
THEOREM VersionsExchangeData == Spec => []ReadsWhatWasWritten
<1>1. IInv => ReadsWhatWasWritten
  <2>1. SUFFICES ASSUME IInv, AllArrived
                 PROVE  last.got = IF Exists(last.path) THEN items[last.path]
                                   ELSE Zeros(Len(last.got))
    BY DEF ReadsWhatWasWritten
  <2>2. phase # "writing" /\ ~(delivered < wr.currOffset)
    BY <2>1, WholeIsHealthy, Written
  <2>3. RightSoFar
    BY <2>1, <2>2 DEF IInv, ReaderInv
  <2>. QED
    BY <2>2, <2>3 DEF RightSoFar
<1>. QED
  BY InvInit, InvNext, <1>1, PTL DEF Spec

\* And at every item both versions know the reader stands where the writer
\* put it, whatever was skipped or missing before.
THEOREM ReaderStaysInStep == Spec => []InStep
<1>1. IInv => InStep
  <2>1. SUFFICES ASSUME IInv, AllArrived, phase = "reading", Exists(rpath)
                 PROVE  GetReadPos(rd) = at[rpath]
    BY DEF InStep
  <2>2. wopen = << >> /\ Healthy
    BY <2>1, WholeIsHealthy
  <2>3. rd.currOffset = at[rpath] /\ rd.currOffset <= rd.endReadOffset
    BY <2>1, <2>2, Written, HealthyReader
  <2>. QED
    BY <2>3 DEF GetReadPos, GetError
<1>. QED
  BY InvInit, InvNext, <1>1, PTL DEF Spec

\* Fields that only one version has are no error, and a reader that is done
\* has consumed the whole document.
THEOREM VersionsMayDiffer == Spec => []VersionsAreNoError
<1>1. IInv => VersionsAreNoError
  <2>1. SUFFICES ASSUME IInv, AllArrived
                 PROVE  /\ GetError(rd) = NoError
                        /\ phase = "done" => IsCompletedSuccessfully(rd)
    BY DEF VersionsAreNoError
  <2>2. wopen = << >> /\ Healthy /\ delivered = wr.currOffset /\ phase # "writing"
    BY <2>1, WholeIsHealthy
  <2>3. GetError(rd) = NoError
    BY <2>2 DEF Healthy, GetError
  <2>4. ASSUME phase = "done" PROVE IsCompletedSuccessfully(rd)
    <3>1. ropen = << >> /\ ~Exists(rpath)
      BY <2>1, <2>4 DEF IInv, ReaderInv
    <3>2. rd.currOffset = wr.currOffset /\ rd.bufferSize = delivered
      BY <2>1, <2>2, <3>1, Written, HealthyReader
    <3>. QED
      BY <2>2, <3>2 DEF IsCompletedSuccessfully
  <2>. QED
    BY <2>3, <2>4
<1>. QED
  BY InvInit, InvNext, <1>1, PTL DEF Spec

\* A reader of a part of the document that is done has an error: it never
\* takes the missing bytes for fields of an older version.
THEOREM TruncationIsNoVersion == Spec => []TruncationIsNoticed
<1>1. IInv => TruncationIsNoticed
  <2>1. SUFFICES ASSUME IInv, phase = "done", delivered < WrittenBytesCount(wr)
                 PROVE  GetError(rd) # NoError /\ ~IsCompletedSuccessfully(rd)
    BY DEF TruncationIsNoticed
  <2>2. /\ wopen = << >> /\ ropen = << >> /\ ~Exists(rpath)
        /\ Healthy \/ Broken
    BY <2>1 DEF IInv, ReaderInv
  <2>3. ~Healthy
    <3>1. SUFFICES ASSUME Healthy PROVE FALSE
      OBVIOUS
    <3>2. /\ rd.currOffset = wr.currOffset /\ rd.currOffset <= Edge(Len(ropen))
          /\ Edge(Len(ropen)) = delivered
      BY <2>1, <2>2, <3>1, Written, HealthyReader
    <3>. QED
      BY <2>1, <3>2, Written
  <2>4. 0 \in Nat
    OBVIOUS
  <2>. QED
    BY <2>2, <2>3, <2>4, BrokenReader
<1>. QED
  BY InvInit, InvNext, <1>1, PTL DEF Spec

\* However little of the document arrived, what a reader got is what was
\* written there, or zeros.
THEOREM NothingIsMadeUp == Spec => []TruncatedReadsAreSafe
<1>1. IInv => TruncatedReadsAreSafe
  <2>1. SUFFICES ASSUME IInv PROVE TruncatedReadsAreSafe
    OBVIOUS
  <2>2. CASE phase = "writing"
    <3>1. last.got = << >>
      BY <2>1, <2>2 DEF IInv, ReaderInv
    <3>2. Zeros(0) \in Seq(Nat) /\ Len(Zeros(0)) = 0 /\ Len(<< >>) = 0
      BY ZerosType
    <3>3. Zeros(0) = << >>
      BY <3>2
    <3>. QED
      BY <3>1, <3>2, <3>3 DEF TruncatedReadsAreSafe
  <2>3. CASE phase # "writing"
    BY <2>1, <2>3 DEF IInv, ReaderInv, RightSoFar, TruncatedReadsAreSafe
  <2>. QED
    BY <2>2, <2>3
<1>. QED
  BY InvInit, InvNext, <1>1, PTL DEF Spec

\* While sessions are open the reader is confined to the innermost, and each
\* lies in the one around it: restoring an end position never narrows.
THEOREM SessionsConfine == Spec => []WindowsNest
<1>1. IInv => WindowsNest
  <2>. DEFINE Ends == [ i \in 1 .. Len(ropen) + 1 |->
                          IF i = Len(ropen) + 1 THEN rd.endReadOffset
                          ELSE IF ropen[i].readEndPos = 0 THEN rd.bufferSize
                          ELSE ropen[i].readEndPos ]
  <2>1. SUFFICES ASSUME IInv, phase = "reading", GetError(rd) = NoError
                 PROVE  /\ \A i \in 1 .. Len(ropen) : Ends[i + 1] <= Ends[i]
                        /\ rd.currOffset <= rd.endReadOffset
    BY DEF WindowsNest
  <2>2. wopen = << >> /\ (Healthy \/ Broken) /\ 0 \in Nat
    BY <2>1 DEF IInv, ReaderInv
  <2>3. Healthy
    BY <2>1, <2>2, BrokenReader
  <2>. PICK m \in Nat : m = Len(ropen)
    BY <2>1 DEF IInv, ReaderType
  <2>4. ASSUME NEW i \in 1 .. m + 1, NEW k \in 0 .. m, k = i - 1 PROVE Ends[i] = Edge(k)
    <3>1. CASE i = m + 1
      <4>1. k = Len(ropen)
        BY <2>4, <3>1
      <4>. QED
        BY <2>3, <3>1, <4>1 DEF Healthy, Confined
    <3>2. CASE i # m + 1 /\ i = 1
      <4>1. i \in 1 .. Len(ropen) /\ k = 0
        BY <2>4, <3>2
      <4>2. ropen[i].readEndPos = 0 /\ rd.bufferSize = delivered
        BY <2>3, <3>2, <4>1 DEF Healthy, Confined
      <4>. QED
        BY <3>2, <4>1, <4>2 DEF Edge
    <3>3. CASE i # m + 1 /\ i # 1
      <4>1. i \in 1 .. Len(ropen) /\ k \in 1 .. Len(ropen)
        BY <2>4, <3>3
      <4>2. ropen[i].readEndPos = Edge(i - 1) /\ 0 < Edge(k)
        BY <2>3, <3>3, <4>1 DEF Healthy, Confined
      <4>3. Edge(k) \in Nat /\ Edge(i - 1) = Edge(k)
        BY <2>1, <2>4, EdgeType, Written
      <4>. QED
        BY <3>3, <4>1, <4>2, <4>3
    <3>. QED
      BY <3>1, <3>2, <3>3
  <2>. HIDE DEF Ends
  <2>5. ASSUME NEW i \in 1 .. Len(ropen) PROVE Ends[i + 1] <= Ends[i]
    <3>. PICK k \in 0 .. m : k = i - 1
      OBVIOUS
    <3>1. i \in 1 .. m + 1 /\ i + 1 \in 1 .. m + 1 /\ i \in 0 .. m /\ i = i + 1 - 1
      OBVIOUS
    <3>2. Ends[i] = Edge(k) /\ Ends[i + 1] = Edge(i)
      BY <2>4, <3>1
    <3>3. Edge(i) <= Edge(i - 1) /\ Edge(i - 1) = Edge(k)
      BY <2>3 DEF Healthy, Confined
    <3>. QED
      BY <3>2, <3>3
  <2>6. rd.currOffset <= rd.endReadOffset
    BY <2>3 DEF Healthy
  <2>. QED
    BY <2>5, <2>6
<1>. QED
  BY InvInit, InvNext, <1>1, PTL DEF Spec
=============================================================================
