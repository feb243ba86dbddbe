----------------------------- MODULE ByteArray ------------------------------
(***************************************************************************)
(* One ByteArray: a list of nodes of BufferNodeSize bytes, each with the   *)
(* extent [start, end) of what is readable in it, a read node, a write     *)
(* node and two counters.  Every public method holds m_bufferMutex from    *)
(* beginning to end, so a method is one action, whatever thread calls it;  *)
(* its loops over the nodes are functions of the node's index.             *)
(*                                                                         *)
(* The array may be copied.  The copy shares the nodes, and an iterator    *)
(* that writes first replaces a shared node by a new one (CowLink).  One   *)
(* of the two arrays is then used and the other, `passive`, looked on; as  *)
(* they are equal when the copy is made, it does not matter which.         *)
(*                                                                         *)
(* Bytes are numbered in the order they are written, so that no two of     *)
(* them are equal.                                                         *)
(***************************************************************************)
EXTENDS Integers, Sequences, FiniteSets

CONSTANTS BufferNodeSize,
          MaxLength,    \* bound: bytes of one write, fill or retrieve
          MaxNodes,     \* bound: nodes of the array
          MaxBytes,     \* bound: bytes written altogether
          LengthModulus \* 2^64: the unsigned type of every length wraps there

ASSUME SizesAssumption ==
    /\ BufferNodeSize \in Nat \ {0} /\ MaxLength \in Nat /\ MaxNodes \in Nat \ {0}
    /\ MaxBytes \in Nat
    /\ LengthModulus \in Nat /\ LengthModulus > (MaxNodes + 1) * BufferNodeSize

VARIABLES array,        \* the ByteArray
          nextByte,     \* bytes written so far
          out,          \* bytes the last step, if it is a retrieve, copied out
          checked,      \* bytes a ChannelReader has found readable, or 0
          overtaken,    \* another reader took bytes since then
          passive,      \* the copy, if there is one: {} or {copy}
          lost,         \* a shared node with extents was replaced
          crossed       \* a transfer left the read or the write node in a wrong
                        \* place; no step follows it

arrayVars == <<array, nextByte, out, checked, overtaken, passive, lost, crossed>>

readerVars == <<checked, overtaken>>

Bytes   == 0..MaxBytes
Offsets == 0..(BufferNodeSize - 1)
NoTwin  == -1
Node    == [start : 0..BufferNodeSize, end : 0..BufferNodeSize,
            buffer : [Offsets -> Bytes],
            twin : NoTwin..(MaxNodes - 1)]  \* its index in the copy that shares it

\* BufferNode::BufferNode.
EmptyNode == [start |-> 0, end |-> 0, buffer |-> [o \in Offsets |-> 0], twin |-> NoTwin]

\* Fault: a shared node is not replaced.
CowMutantShared(node) == node

\* cowThisNode: BufferNode's copy constructor takes the bytes, not the extents.
Cow(node) == IF node.twin = NoTwin THEN node ELSE [EmptyNode EXCEPT !.buffer = node.buffer]

\* What the head move does to a node that goes to the tail.
Reset(node) == [start |-> 0, end |-> 0, buffer |-> node.buffer, twin |-> node.twin]

Least(x, y) == IF x <= y THEN x ELSE y

ArrayTypeOK ==
    /\ array.size \in 1..MaxNodes
    /\ array.nodes \in [0..(array.size - 1) -> Node]
    /\ array.readNode \in DOMAIN array.nodes
    /\ array.writeNode \in DOMAIN array.nodes
    /\ {array.availableSizeToRead, array.availableSizeToWrite} \subseteq Nat
    /\ nextByte \in Bytes
    /\ out \in Seq(Bytes)
    /\ checked \in 0..MaxLength
    /\ {overtaken, lost, crossed} \subseteq BOOLEAN
    /\ \A copy \in passive : copy.nodes \in [0..(copy.size - 1) -> Node]

\* ByteArray::ByteArray with a CowLink of defaultNodeSize, one node.
ArrayInit ==
    /\ array = [availableSizeToRead  |-> 0,
                availableSizeToWrite |-> BufferNodeSize,
                readNode |-> 0, writeNode |-> 0,
                size |-> 1, nodes |-> [i \in {0} |-> EmptyNode]]
    /\ nextByte = 0 /\ out = <<>>
    /\ checked = 0 /\ overtaken = FALSE
    /\ passive = {}
    /\ lost = FALSE /\ crossed = FALSE

(***************************************************************************)
(* Space.                                                                  *)
(***************************************************************************)
\* Faulty variants of a definition carry the suffix Mutant...; no specification
\* uses them, they show which property notices the fault.

\* Fault: the write node is not moved with the nodes.
MoveBufferHeadMutantWriteNode(a) ==
    [a EXCEPT
        !.nodes = [i \in 0..(a.size - 1) |->
            IF i + a.readNode < a.size THEN a.nodes[i + a.readNode]
            ELSE Reset(a.nodes[i + a.readNode - a.size])],
        !.availableSizeToWrite = @ + a.readNode * BufferNodeSize,
        !.readNode = 0]

\* unlockedMoveBufferHead: the nodes before the read node go to the tail.
MoveBufferHead(a) ==
    [a EXCEPT
        !.nodes = [i \in 0..(a.size - 1) |->
            IF i + a.readNode < a.size THEN a.nodes[i + a.readNode]
            ELSE Reset(a.nodes[i + a.readNode - a.size])],
        !.availableSizeToWrite = @ + a.readNode * BufferNodeSize,
        !.writeNode = @ - a.readNode,
        !.readNode = 0]

\* The number of nodes is doubled, at least once, until size bytes and one more
\* can be written; every doubling adds a node or more, so that is soon.
MoreNodes(a, size) ==
    LET doubled[k \in 0..(size + 1)] == IF k = 0 THEN a.size ELSE 2 * doubled[k - 1]
        enough == {n \in {doubled[k] : k \in 1..(size + 1)} :
                     (n - a.size) * BufferNodeSize + a.availableSizeToWrite > size}
    IN  CHOOSE n \in enough : \A m \in enough : n <= m

\* Fault: space that just suffices is taken for enough.
AllocIfNotEnoughMutantExact(a, size) ==
    IF a.availableSizeToWrite >= size THEN a
    ELSE LET n == MoreNodes(a, size)
         IN  [a EXCEPT !.size = n,
                       !.nodes = [i \in 0..(n - 1) |->
                                    IF i < a.size THEN a.nodes[i] ELSE EmptyNode],
                       !.availableSizeToWrite = @ + (n - a.size) * BufferNodeSize]

\* unlockedAllocIfNotEnough.
AllocIfNotEnough(a, size) ==
    LET b == MoveBufferHead(a)
        n == MoreNodes(b, size)
    IN  IF a.availableSizeToWrite > size THEN a
        ELSE IF b.availableSizeToWrite > size THEN b
        ELSE [b EXCEPT !.size = n,
                       !.nodes = [i \in 0..(n - 1) |->
                                    IF i < b.size THEN b.nodes[i] ELSE EmptyNode],
                       !.availableSizeToWrite = @ + (n - b.size) * BufferNodeSize]

\* The read or write node after the loop has left `steps` nodes behind: the
\* last node is never left.
MoveOn(node, steps, size) == Least(node + steps, size - 1)

\* How much of length is left when a loop that begins with node `from` comes to
\* node i, up to `to`, if node i takes up to capacity[i].
LeftOver(capacity, from, to, length) ==
    LET left[i \in from..to] ==
            IF i = from THEN length
            ELSE left[i - 1] - Least(left[i - 1], capacity[i - 1])
    IN  left

(***************************************************************************)
(* The nodes an iterator visits are replaced if they are shared: the one it *)
(* begins at and, with every step, the next, also when the loop ends there. *)
(***************************************************************************)
Visited(a, from, used) ==
    {i \in 0..(a.size - 1) : i = from \/ i \in used \/ i - 1 \in used}

CowNodes(a, visited) ==
    [a EXCEPT !.nodes = [i \in 0..(a.size - 1) |->
                            IF i \in visited THEN Cow(a.nodes[i]) ELSE a.nodes[i]]]

\* Some of these nodes lose their extents.
LosesExtents(a, visited) ==
    \E i \in visited : /\ a.nodes[i].twin # NoTwin
                       /\ <<a.nodes[i].start, a.nodes[i].end>> # <<0, 0>>

(***************************************************************************)
(* writeRaw.                                                               *)
(***************************************************************************)
Room(node) == BufferNodeSize - Cow(node).end

\* What is not written yet when the loop comes to node i.
WriteLeft(b, length) ==
    LeftOver([i \in b.writeNode..(b.size - 1) |-> Room(b.nodes[i])],
             b.writeNode, b.size, length)

WriteVisits(b, length) ==
    Visited(b, b.writeNode,
            {i \in b.writeNode..(b.size - 1) : WriteLeft(b, length)[i] > 0})

\* count bytes of data, from the first one on, go behind the node's end.
Filled(node, data, first, count) ==
    [start  |-> node.start, end |-> node.end + count,
     buffer |-> [o \in Offsets |->
        IF o - node.end \in 0..(count - 1) THEN data[first + (o - node.end)]
        ELSE node.buffer[o]],
     twin   |-> node.twin]

WriteLoop(b, data) ==
    LET left == WriteLeft(b, Len(data))
        c == CowNodes(b, WriteVisits(b, Len(data)))
        put(i) == Least(left[i], Room(b.nodes[i]))
        full == {i \in b.writeNode..(b.size - 1) :
                   left[i] > 0 /\ put(i) = Room(b.nodes[i])}
        written == Len(data) - left[b.size]
    IN  [c EXCEPT
            !.nodes = [i \in 0..(c.size - 1) |->
                IF i < c.writeNode THEN c.nodes[i]
                ELSE Filled(c.nodes[i], data, Len(data) - left[i] + 1, put(i))],
            !.writeNode = MoveOn(@, Cardinality(full), c.size),
            !.availableSizeToRead  = @ + written,
            !.availableSizeToWrite = @ - written]

WriteRaw(a, data) == WriteLoop(AllocIfNotEnough(a, Len(data)), data)

(***************************************************************************)
(* retrieveRaw.                                                            *)
(***************************************************************************)
\* The node after the last one that has something to read.
EndOfReadNode(a) ==
    IF a.writeNode = a.readNode THEN a.readNode + 1
    ELSE IF a.nodes[a.writeNode].end = 0 THEN a.writeNode ELSE a.writeNode + 1

Readable(node) == Cow(node).end - Cow(node).start

\* What is left to copy when the loop comes to node i, and what node i gives.
RetrieveLeft(a, length) ==
    LeftOver([i \in a.readNode..(EndOfReadNode(a) - 1) |-> Readable(a.nodes[i])],
             a.readNode, EndOfReadNode(a), length)

RetrieveVisits(a, length) ==
    Visited(a, a.readNode,
            {i \in a.readNode..(EndOfReadNode(a) - 1) : RetrieveLeft(a, length)[i] > 0})

Taken(a, length, i) == Least(RetrieveLeft(a, length)[i], Readable(a.nodes[i]))

Retrieved(a, length) ==
    LET left == RetrieveLeft(a, length)
        From(k) == CHOOSE i \in a.readNode..(EndOfReadNode(a) - 1) :
                      length - left[i] < k /\ k <= length - left[i + 1]
    IN  [k \in 1..(length - left[EndOfReadNode(a)]) |->
            LET node == Cow(a.nodes[From(k)])
            IN  node.buffer[node.start + (k - 1 - (length - left[From(k)]))]]

\* An emptied node is left for the next one, and takes the write node along.
RetrieveRaw(a, length) ==
    LET left == RetrieveLeft(a, length)
        last == EndOfReadNode(a)
        c == CowNodes(a, RetrieveVisits(a, length))
        emptied == {i \in a.readNode..(last - 1) :
                      left[i] > 0 /\ c.nodes[i].start + Taken(a, length, i) = BufferNodeSize}
        next == MoveOn(a.readNode, Cardinality(emptied), a.size)
    IN  [c EXCEPT
            !.nodes = [i \in 0..(c.size - 1) |->
                IF i \in c.readNode..(last - 1)
                THEN [c.nodes[i] EXCEPT !.start = @ + Taken(a, length, i)]
                ELSE c.nodes[i]],
            !.readNode = next,
            !.writeNode = IF next > @ THEN next ELSE @,
            !.availableSizeToRead = @ - (length - left[last])]

(***************************************************************************)
(* ByteArrayReaderWithLock: iovecs of the readable nodes, and              *)
(* adjustByteArray after sendmsg or recvmsg moved `size` bytes.            *)
(***************************************************************************)
ReaderVisits(a) == Visited(a, a.readNode, a.readNode..(EndOfReadNode(a) - 1))

IovBytes(a) ==
    LET sum[i \in a.readNode..EndOfReadNode(a)] ==
            IF i = a.readNode THEN 0 ELSE sum[i - 1] + Readable(a.nodes[i - 1])
    IN  sum[EndOfReadNode(a)]

\* Fault: a remainder is no node more.
AdjustedReadNodeMutantNoRemainder(a, size) ==
    IF size >= a.availableSizeToRead THEN a.writeNode
    ELSE a.readNode + size \div BufferNodeSize

\* The read node it computes: start offsets are not looked at, and a remainder
\* counts as one node more.
AdjustedReadNode(a, size) ==
    IF size >= a.availableSizeToRead THEN a.writeNode
    ELSE LET forward == size \div BufferNodeSize
         IN  a.readNode + forward +
             (IF forward # 0 /\ size % BufferNodeSize # 0 THEN 1 ELSE 0)

\* Before the head is moved.
Advanced(a, size) ==
    LET n == AdjustedReadNode(a, size)
        c == CowNodes(a, ReaderVisits(a) \cup {n})
    IN  IF size >= a.availableSizeToRead
        THEN [c EXCEPT !.readNode = n, !.availableSizeToRead = 0,
                       !.nodes[n].start = c.nodes[n].end]
        ELSE [c EXCEPT !.readNode = n, !.availableSizeToRead = @ - size,
                       !.nodes[n].start = @ + (size % BufferNodeSize)]

AdjustByteArray(a, size) == MoveBufferHead(Advanced(a, size))

(***************************************************************************)
(* ByteArrayWriterWithLock: iovecs of the free space, which recvmsg fills  *)
(* from the write node's end on, and adjustByteArray after it brought      *)
(* `size` bytes.  Its unsigned size goes below 0.                          *)
(***************************************************************************)
WriterVisits(a) == a.writeNode..(a.size - 1)

IovRoom(a) ==
    LET sum[i \in a.writeNode..a.size] ==
            IF i = a.writeNode THEN 0 ELSE sum[i - 1] + Room(a.nodes[i - 1])
    IN  sum[a.size]

\* it->end and, for the next node, size.
WriterLeft(b, size) ==
    LET left[i \in b.writeNode..b.size] ==
            IF i = b.writeNode THEN size
            ELSE LET end == Least(BufferNodeSize,
                                  (b.nodes[i - 1].end + left[i - 1]) % LengthModulus)
                 IN  (left[i - 1] - (BufferNodeSize - end)) % LengthModulus
    IN  left

WriterAdjustByteArray(a, size) ==
    LET b == AllocIfNotEnough(a, size)
    IN  [b EXCEPT
            !.availableSizeToWrite = @ - size,
            !.availableSizeToRead  = @ + size,
            !.nodes = [i \in 0..(b.size - 1) |->
                IF i < b.writeNode THEN b.nodes[i]
                ELSE [b.nodes[i] EXCEPT !.end =
                        Least(BufferNodeSize,
                              (@ + WriterLeft(b, size)[i]) % LengthModulus)]],
            !.writeNode = b.size - 1]

\* recvmsg puts data, which the write node has room for, behind its end.
Received(a, data) ==
    LET c == CowNodes(a, WriterVisits(a))
        node == c.nodes[a.writeNode]
        filled == [c EXCEPT !.nodes[a.writeNode].buffer =
                      [o \in Offsets |->
                          IF o - node.end \in 0..(Len(data) - 1)
                          THEN data[1 + (o - node.end)] ELSE node.buffer[o]]]
    IN  WriterAdjustByteArray(filled, Len(data))

-----------------------------------------------------------------------------
\* The lengths the typed methods pass on stand for these.
WriteLengths    == 0..MaxLength
RetrieveLengths == 0..MaxLength

DataFrom(b, length) == [k \in 1..length |-> b + k]

\* The copy when the array has become a: a node the two share is one object,
\* so that what is done to it in place, as the head move does, is done to both.
Passive(a) ==
    {[copy EXCEPT !.nodes = [j \in DOMAIN copy.nodes |->
        IF \E i \in DOMAIN a.nodes : a.nodes[i].twin = j
        THEN [a.nodes[CHOOSE i \in DOMAIN a.nodes : a.nodes[i].twin = j]
                EXCEPT !.twin = NoTwin]
        ELSE copy.nodes[j]]] : copy \in passive}

Write(length) ==
    LET a == WriteRaw(array, DataFrom(nextByte, length))
        b == AllocIfNotEnough(array, length)
    IN  /\ ~crossed
        /\ a.size <= MaxNodes /\ nextByte + length <= MaxBytes
        /\ array' = a
        /\ nextByte' = nextByte + length
        /\ passive' = Passive(a)
        /\ lost' = (lost \/ LosesExtents(b, WriteVisits(b, length)))
        /\ out' = <<>>
        /\ UNCHANGED <<readerVars, crossed>>

\* Fault: a request for all there is is refused.
RetrieveMutantStrict(length) ==
    /\ ~crossed
    /\ \/ /\ array.availableSizeToRead > length
          /\ array' = RetrieveRaw(array, length)
          /\ out' = Retrieved(array, length)
          /\ lost' = (lost \/ LosesExtents(array, RetrieveVisits(array, length)))
       \/ /\ array.availableSizeToRead <= length
          /\ out' = <<>>
          /\ UNCHANGED <<array, lost>>
    /\ passive' = Passive(array')
    /\ UNCHANGED <<nextByte, crossed>>

\* A retrieve of any length: nothing is taken when there is not enough.
Retrieve(length) ==
    /\ ~crossed
    /\ \/ /\ array.availableSizeToRead >= length
          /\ array' = RetrieveRaw(array, length)
          /\ out' = Retrieved(array, length)
          /\ lost' = (lost \/ LosesExtents(array, RetrieveVisits(array, length)))
       \/ /\ array.availableSizeToRead < length
          /\ out' = <<>>
          /\ UNCHANGED <<array, lost>>
    /\ passive' = Passive(array')
    /\ UNCHANGED <<nextByte, crossed>>

\* ChannelReader::retrieve...: readableBytes under one lock, ...
ReaderChecks(length) ==
    /\ ~crossed /\ checked = 0
    /\ array.availableSizeToRead >= length
    /\ checked' = length /\ overtaken' = FALSE
    /\ out' = <<>>
    /\ UNCHANGED <<array, nextByte, passive, lost, crossed>>

\* ... and the retrieve under another, whose failure is taken for a value.
ReaderRetrieves ==
    /\ checked > 0
    /\ checked' = 0 /\ overtaken' = FALSE
    /\ Retrieve(checked)

OtherRetrieves(length) ==
    /\ Retrieve(length)
    /\ overtaken' = (checked > 0 /\ (overtaken \/ array' # array))
    /\ UNCHANGED checked

\* The transfers whose node arithmetic comes out right.
ExactTransfer(a, size) ==
    LET start == a.nodes[a.readNode].start
    IN  \/ size >= a.availableSizeToRead
        \/ size < BufferNodeSize /\ start + size <= BufferNodeSize
        \/ /\ size >= BufferNodeSize
           /\ start = IF size % BufferNodeSize = 0 THEN 0 ELSE BufferNodeSize

\* After any other one, or one that leaves the read node past its end because
\* extents were lost, the array is not followed further.
SocketTransfers(size) ==
    /\ ~crossed /\ ~lost
    /\ size <= IovBytes(array)
    /\ \/ /\ ExactTransfer(array, size)
          /\ array' = AdjustByteArray(array, size)
          /\ passive' = Passive(array')
          /\ lost' = LosesExtents(array, ReaderVisits(array))
          /\ LET node == array'.nodes[array'.readNode]
             IN  crossed' = (node.start > node.end)  \* only if extents were lost
       \/ /\ ~ExactTransfer(array, size)
          /\ crossed' = TRUE
          /\ UNCHANGED <<array, passive, lost>>
    /\ overtaken' = (checked > 0)
    /\ out' = <<>>
    /\ UNCHANGED <<nextByte, checked>>

\* The fills whose node arithmetic comes out right.
ExactFill(a, size) == a.writeNode = a.size - 1 /\ size < a.availableSizeToWrite

\* SocketIO::read into the free space: recvmsg brings new bytes, or none at the
\* end of the file.  Any other fill lets the write node or its end go wrong, and
\* the array is not followed further.
SocketFills(size) ==
    /\ ~crossed /\ ~lost
    /\ size <= IovRoom(array)
    /\ \/ /\ ExactFill(array, size)
          /\ nextByte + size <= MaxBytes
          /\ array' = Received(array, DataFrom(nextByte, size))
          /\ nextByte' = nextByte + size
          /\ passive' = Passive(array')
          /\ lost' = LosesExtents(array, WriterVisits(array))
          /\ UNCHANGED crossed
       \/ /\ ~ExactFill(array, size)
          /\ crossed' = TRUE
          /\ UNCHANGED <<array, nextByte, passive, lost>>
    /\ out' = <<>>
    /\ UNCHANGED readerVars

\* The readable bytes, found by their place in the array alone.
ContentsOf(a) ==
    [k \in 1..a.availableSizeToRead |->
        LET p == a.readNode * BufferNodeSize + a.nodes[a.readNode].start + k - 1
        IN  a.nodes[p \div BufferNodeSize].buffer[p % BufferNodeSize]]

\* ByteArray's copy constructor, and the end of one of the two arrays.
Copy ==
    /\ passive = {} /\ ~lost /\ ~crossed
    /\ passive' = {array}
    /\ array' = [array EXCEPT !.nodes = [i \in DOMAIN array.nodes |->
                                            [array.nodes[i] EXCEPT !.twin = i]]]
    /\ out' = <<>>
    /\ UNCHANGED <<nextByte, readerVars, lost, crossed>>

DestroyCopy ==
    /\ passive # {} /\ ~lost /\ ~crossed
    /\ passive' = {}
    /\ array' = [array EXCEPT !.nodes = [i \in DOMAIN array.nodes |->
                                            [array.nodes[i] EXCEPT !.twin = NoTwin]]]
    /\ out' = <<>>
    /\ UNCHANGED <<nextByte, readerVars, lost, crossed>>

ArrayNext ==
    \/ \E length \in WriteLengths : Write(length)
    \/ \E length \in RetrieveLengths : OtherRetrieves(length) \/ ReaderChecks(length)
    \/ ReaderRetrieves
    \/ \E size \in 0..(MaxNodes * BufferNodeSize) : SocketTransfers(size)
    \/ \E length \in WriteLengths : SocketFills(length)
    \/ Copy \/ DestroyCopy

ArraySpec == ArrayInit /\ [][ArrayNext]_arrayVars

-----------------------------------------------------------------------------
(***************************************************************************)
(* Properties.                                                             *)
(***************************************************************************)
StartOf(a) == a.readNode * BufferNodeSize + a.nodes[a.readNode].start
EndOf(a)   == a.writeNode * BufferNodeSize + a.nodes[a.writeNode].end

\* ByteArray.h: the readable bytes are those from the read node's start to the
\* write node's end, the writeable ones those from there to the last node's
\* end, and the counters say how many; the write node has room.  So it is after
\* any mix of writes, retrieves, head moves, allocations, copies and of the
\* transfers and fills of sockets that ExactTransfer and ExactFill name.  The
\* first other one, or the first shared node that loses its extents, ends what
\* is claimed: from then on the counters may be wrong (AdjustExactIff says that
\* after an inexact fill they are).
CountersAreExtents ==
    ~lost /\ ~crossed =>
        /\ array.availableSizeToRead = EndOf(array) - StartOf(array)
        /\ array.availableSizeToWrite = array.size * BufferNodeSize - EndOf(array)
        /\ array.nodes[array.writeNode].end < BufferNodeSize

\* The nodes implement a queue of bytes: writes and exact fills append, and a
\* retrieve or an exact transfer takes the oldest bytes, across nodes, head
\* moves, allocations and copies.  It ends with the first node that loses its
\* extents to BufferNode's copy constructor, or with an inexact transfer or fill.
Fifo == INSTANCE ByteQueue WITH
    Data    <- {DataFrom(b, n) : b \in Bytes, n \in WriteLengths},
    Lengths <- RetrieveLengths,
    content <- IF lost THEN <<>> ELSE ContentsOf(array),
    out     <- out
FifoUntilLost == Fifo!QInit /\ [][Fifo!QNext \/ lost']_(Fifo!qvars)

\* What the array does changes nothing for its copy: a node with bytes of the
\* copy is replaced before it is written, and the nodes a head move resets in
\* place hold nothing the copy can still read.
CopyIntact ==
    [][passive # {} /\ passive' # {} =>
          {ContentsOf(copy) : copy \in passive'} =
          {ContentsOf(copy) : copy \in passive}]_arrayVars

\* A ChannelReader that found enough bytes gets them, whatever is written,
\* moved or allocated before it has the lock again; only bytes taken by
\* someone else make it return a value nobody sent.
InventedExplained ==
    [][ReaderRetrieves => overtaken \/ lost' \/ Len(out') = checked]_arrayVars

\* SocketIO.cpp:55 and 98: after a transfer of any size that the iovecs allow,
\* the read node's start is where the transfer ended exactly in the cases of
\* ExactTransfer, which leave out a transfer past the end of a node that was
\* already read from, and a remainder after whole nodes unless the read node
\* was empty and not yet left; the write node's end is as far behind the read
\* node's start as the counter then says exactly in those of ExactFill, where
\* the write node was, and stays, the last one.
AdjustExactIff ==
    passive = {} /\ ~crossed =>
        /\ \A size \in 0..IovBytes(array) :
              LET n == AdjustedReadNode(array, size)
              IN  ExactTransfer(array, size) <=>
                    /\ n <= array.writeNode
                    /\ StartOf(Advanced(array, size)) = StartOf(array) + size
                    /\ Advanced(array, size).nodes[n].start <= BufferNodeSize
        /\ \A size \in 0..array.availableSizeToWrite :
              LET w == WriterAdjustByteArray(array, size)
              IN  ExactFill(array, size)
                    <=> EndOf(w) - StartOf(w) = array.availableSizeToRead + size
=============================================================================
