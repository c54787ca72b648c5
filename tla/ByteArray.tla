------------------------------ MODULE ByteArray ------------------------------
(***************************************************************************)
(* sylar/bytearray.cc: a growing array of bytes kept as a chain of blocks  *)
(* of one size, with one cursor that writing and reading both move, typed  *)
(* values encoded into it, and the ways it is filled from and emptied into *)
(* files and sockets.  The code keeps the cursor twice, as m_position and  *)
(* as the block m_cur: a read or a write uses the second with the offset   *)
(* of the first.                                                           *)
(***************************************************************************)
EXTENDS Integers, Sequences, SequencesExt

CONSTANTS
    BaseSize,    \* bytes of a block
    MaxCapacity, \* bound: bytes of the array
    MaxOps,      \* bound: operations
    Width,       \* bits of a compressed integer: 32 and 64 in the code
    Fixeds,      \* values written in two bytes
    Ints,        \* values written compressed
    Strings      \* contents of strings, and of what a peer sends

Null == 0
Junk == -1       \* a byte of a new block
Crash == -2      \* stands for a walk past the end of the chain

VARIABLES
    nodes,      \* the chain of blocks; m_root is the first
    capacity,   \* m_capacity
    m_position, \* m_position
    m_size,     \* m_size
    m_cur,      \* which block m_cur is, or Null
    endian,     \* m_endian
    file,       \* what writeToFile() wrote last
    items,      \* history: the values written that are still intact
    last,       \* history: what was asked for and read last, from where
    ops         \* how many operations there were

bufVars == <<nodes, capacity, m_position, m_size, m_cur>>
vars == <<bufVars, endian, file, items, last, ops>>

Fresh == [o \in 0..BaseSize - 1 |-> Junk]
NoRead == [asked |-> "none", kind |-> "none", at |-> 0, endian |-> "big", value |-> <<>>]

Init ==
    /\ nodes = <<Fresh>>
    /\ capacity = BaseSize
    /\ m_position = 0 /\ m_size = 0 /\ m_cur = 1
    /\ endian = "big"
    /\ file = <<>>
    /\ items = {} /\ last = NoRead /\ ops = 0

-----------------------------------------------------------------------------
(* Encodings, each a sequence of bytes.                                    *)
Digits(v) == <<v % 256, v \div 256>>
Fixed(v) == IF endian = "little" THEN Digits(v) ELSE Reverse(Digits(v))
FromFixed(b) == IF endian = "little" THEN b[1] + 256 * b[2] ELSE b[2] + 256 * b[1]

EncodeZigzag(v) == (IF v < 0 THEN -2 * v - 1 ELSE 2 * v) % 2^Width

DecodeZigzag(u) == IF u % 2 = 1 THEN -(u \div 2) - 1 ELSE u \div 2

\* Seven bits to a byte, the lowest first; all bytes but the last have the
\* eighth bit set.
MaxVarint == (Width + 6) \div 7
Varint(u) ==
    LET n == CHOOSE n \in 1..MaxVarint : u < 128^n /\ (n = 1 \/ u >= 128^(n - 1))
    IN  [i \in 1..n |-> ((u \div 128^(i - 1)) % 128) + (IF i < n THEN 128 ELSE 0)]
FromVarint(bytes) == FoldRight(LAMBDA b, acc : (b % 128) + 128 * acc, bytes, 0) % 2^Width

\* What the chain relies on: an encoded integer ends where its decoder stops,
\* and comes back.
CodeOf(v) == Varint(EncodeZigzag(v))
Decodable(v) ==
    /\ CodeOf(v) \in Seq(0..255) /\ Len(CodeOf(v)) \in 1..MaxVarint
    /\ \A i \in 1..Len(CodeOf(v)) : CodeOf(v)[i] < 128 \/ i = MaxVarint <=> i = Len(CodeOf(v))
    /\ DecodeZigzag(FromVarint(CodeOf(v))) = v

-----------------------------------------------------------------------------
(* The chain.                                                              *)

\* The block k bytes behind the beginning of block c.
After(ns, c, k) ==
    LET j == c + k \div BaseSize IN IF j > Len(ns) THEN Null ELSE j

\* The n bytes from the cursor on.
Walk(n) ==
    [i \in 1..n |-> LET k == (m_position % BaseSize) + i - 1
                    IN  nodes[m_cur + k \div BaseSize][k % BaseSize]]

\* Mutant: the cursor at the end of the chain is not put on the new block.
AddCapacityLost(n) ==
    LET free == capacity - m_position
        more == IF free >= n THEN 0 ELSE (n - free + BaseSize - 1) \div BaseSize
    IN  [ns |-> nodes \o [i \in 1..more |-> Fresh], cur |-> m_cur]

\* addCapacity(): whole blocks are appended to the chain.
AddCapacity(n) ==
    LET free == capacity - m_position
        more == IF free >= n THEN 0 ELSE (n - free + BaseSize - 1) \div BaseSize
    IN  [ns |-> nodes \o [i \in 1..more |-> Fresh],
         cur |-> IF free = 0 /\ n > 0 THEN Len(nodes) + 1 ELSE m_cur]

\* The blocks ns with bytes stored from the cursor on.
Stored(ns, c, bytes) ==
    [j \in 1..Len(ns) |-> [o \in 0..BaseSize - 1 |->
        LET k == (j - c) * BaseSize + o - (m_position % BaseSize)
        IN  IF k \in 0..Len(bytes) - 1 THEN bytes[k + 1] ELSE ns[j][o]]]

Moved(ns, c, n) ==
    /\ m_position' = m_position + n
    /\ m_size' = IF m_position + n > m_size THEN m_position + n ELSE m_size
    /\ m_cur' = After(ns, c, (m_position % BaseSize) + n)

Intact(n) == {it \in items : it.at + it.n <= m_position \/ m_position + n <= it.at}

Op ==
    /\ ops < MaxOps /\ last.kind # "crash"
    /\ ops' = ops + 1

\* write(): nothing, for no bytes.
Write(bytes, kind, value) ==
    LET room == AddCapacity(Len(bytes)) IN
    /\ Len(room.ns) * BaseSize <= MaxCapacity
    /\ nodes' = Stored(room.ns, room.cur, bytes)
    /\ capacity' = Len(room.ns) * BaseSize
    /\ Moved(room.ns, room.cur, Len(bytes))
    /\ items' = Intact(Len(bytes)) \cup
                  {[at |-> m_position, n |-> Len(bytes), kind |-> kind,
                    endian |-> endian, value |-> value, bytes |-> bytes]}
    /\ last' = NoRead
    /\ UNCHANGED <<endian, file>>

\* A length and the bytes after it are two writes without anything between.
WriteFixed == \E v \in Fixeds : Op /\ Write(Fixed(v), "fixed", <<v>>)
WriteInt == \E v \in Ints : Op /\ Write(CodeOf(v), "int", <<v>>)
WriteString == \E s \in Strings : Op /\ Write(Fixed(Len(s)) \o s, "string", s)

-----------------------------------------------------------------------------
(* Reading.  A read that finds too little throws and moves nothing; the    *)
(* reads a value is made of are separate.                                  *)
ReadSize == m_size - m_position
Written(n) == \A i \in 1..n : Walk(n)[i] # Junk

\* A value of one kind was asked for; n bytes have been read, as this value.
Took(n, asked, kind, value) ==
    /\ m_position' = m_position + n
    /\ m_cur' = After(nodes, m_cur, (m_position % BaseSize) + n)
    /\ last' = [asked |-> asked, kind |-> kind, at |-> m_position, endian |-> endian,
                value |-> value]
    /\ UNCHANGED <<nodes, capacity, m_size, endian, file, items>>

Reading ==
    /\ Op /\ Written(ReadSize)

ReadFixed ==
    /\ Reading
    /\ IF ReadSize < 2 THEN Took(0, "fixed", "none", <<>>)
                       ELSE Took(2, "fixed", "fixed", <<FromFixed(Walk(2))>>)

\* At most MaxVarint bytes, the last of them the first without an eighth bit.
ReadInt ==
    /\ Reading
    /\ LET ends == {n \in 1..MaxVarint : n <= ReadSize /\ (Walk(n)[n] < 128 \/ n = MaxVarint)}
       IN  IF ends = {} THEN Took(ReadSize, "int", "none", <<>>)
           ELSE LET n == CHOOSE n \in ends : \A k \in ends : n <= k
                IN  Took(n, "int", "int", <<DecodeZigzag(FromVarint(Walk(n)))>>)

\* The length is consumed even if the bytes are not there.  Reading no bytes
\* still looks at the block of the cursor, which does not exist at the end
\* of the chain.
ReadString ==
    /\ Reading
    /\ IF ReadSize < 2 THEN Took(0, "string", "none", <<>>)
       ELSE LET len == FromFixed(Walk(2)) IN
            IF len > ReadSize - 2 THEN Took(2, "string", "none", <<>>)
            ELSE IF len = 0 /\ m_position + 2 = capacity
                 THEN Took(2, "string", "crash", <<>>)
                 ELSE Took(2 + len, "string", "string", SubSeq(Walk(2 + len), 3, 2 + len))

\* toString() reads from the cursor without moving it.
Peek ==
    /\ Reading /\ ReadSize > 0
    /\ Took(0, "bytes", "bytes", Walk(ReadSize))

-----------------------------------------------------------------------------
\* setPosition(): up to the capacity, and m_cur is looked for from m_root on.
Seek(v) ==
    /\ m_position' = v
    /\ m_size' = IF v > m_size THEN v ELSE m_size
    /\ m_cur' = After(nodes, 1, v)

SetPosition ==
    /\ Op
    /\ \E v \in 0..capacity : Seek(v)
    /\ last' = NoRead
    /\ UNCHANGED <<nodes, capacity, endian, file, items>>

\* clear(): the first block stays.
Clear ==
    /\ Op
    /\ nodes' = <<nodes[1]>> /\ capacity' = BaseSize
    /\ m_position' = 0 /\ m_size' = 0 /\ m_cur' = 1
    /\ items' = {} /\ last' = NoRead
    /\ UNCHANGED <<endian, file>>

SetIsLittleEndian ==
    /\ Op
    /\ endian' \in {"little", "big"} \ {endian}
    /\ last' = NoRead
    /\ UNCHANGED <<bufVars, file, items>>

\* Where writeToFile() has come to, and how much is left.
Place == [block : Nat, position : Int, rest : Int]

\* The bytes writeToFile() writes for those left, from a block and position on:
\* the length of a piece is cut at a block before the offset is taken off.
Saved[at \in Place] ==
    IF at.rest <= 0 THEN <<>>
    ELSE IF at.block \notin 1..Len(nodes) THEN <<Crash>>
    ELSE LET diff == at.position % BaseSize
             len == (IF at.rest > BaseSize THEN BaseSize ELSE at.rest) - diff
             some == IF len > 0 THEN len ELSE 0
         IN  [i \in 1..some |-> nodes[at.block][diff + i - 1]]
               \o Saved[[block |-> at.block + 1, position |-> at.position + len,
                         rest |-> at.rest - len]]

WriteToFile ==
    /\ Reading
    /\ LET bytes == Saved[[block |-> m_cur, position |-> m_position, rest |-> ReadSize]] IN
        IF Crash \in {bytes[i] : i \in DOMAIN bytes}
          THEN file' = <<>> /\ last' = [NoRead EXCEPT !.kind = "crash"]
          ELSE /\ file' = bytes
               /\ last' = [asked |-> "file", kind |-> "file", at |-> m_position,
                           endian |-> endian, value |-> bytes]
    /\ UNCHANGED <<bufVars, endian, items>>

ReadFromFile == file # <<>> /\ Op /\ Write(file, "raw", file)

\* SocketStream::read(): room for n bytes is made, the peer's fill some of it.
Receive ==
    /\ Op
    /\ \E n \in 1..BaseSize + 1, s \in Strings :
        LET room == AddCapacity(n) IN
        /\ Len(s) <= n /\ Len(room.ns) * BaseSize <= MaxCapacity
        /\ nodes' = Stored(room.ns, room.cur, s)
        /\ capacity' = Len(room.ns) * BaseSize
        /\ IF s = <<>> THEN m_cur' = room.cur /\ UNCHANGED <<m_position, m_size, items>>
           ELSE /\ m_position' = m_position + Len(s)
                /\ m_size' = IF m_position' > m_size THEN m_position' ELSE m_size
                /\ m_cur' = After(room.ns, 1, m_position')
                /\ items' = Intact(Len(s)) \cup
                     {[at |-> m_position, n |-> Len(s), kind |-> "raw",
                       endian |-> endian, value |-> s, bytes |-> s]}
    /\ last' = NoRead
    /\ UNCHANGED <<endian, file>>

\* SocketStream::write(): the peer takes some of the bytes that are left.
Send ==
    /\ Reading /\ ReadSize > 0
    /\ \E n \in 1..ReadSize :
        /\ Seek(m_position + n)
        /\ last' = [asked |-> "bytes", kind |-> "bytes", at |-> m_position,
                    endian |-> endian, value |-> Walk(n)]
    /\ UNCHANGED <<nodes, capacity, endian, file, items>>

Next ==
    \/ WriteFixed \/ WriteInt \/ WriteString
    \/ ReadFixed \/ ReadInt \/ ReadString \/ Peek
    \/ SetPosition \/ Clear \/ SetIsLittleEndian
    \/ WriteToFile \/ ReadFromFile \/ Receive \/ Send

-----------------------------------------------------------------------------
TypeOK ==
    /\ \A j \in 1..Len(nodes) : nodes[j] \in [0..BaseSize - 1 -> Junk..255]
    /\ {capacity, m_position, m_size, m_cur} \subseteq 0..MaxCapacity
    /\ endian \in {"big", "little"}
    /\ last.kind \in {"none", "fixed", "int", "string", "bytes", "file", "crash"}

\* The two cursors agree: m_cur is the block of m_position, and it is no
\* block exactly when the position is the capacity, where addCapacity() puts
\* it right before the next write.
CursorFollowsPosition ==
    /\ capacity = BaseSize * Len(nodes)
    /\ m_position <= m_size /\ m_size <= capacity
    /\ m_cur = IF m_position = capacity THEN Null ELSE m_position \div BaseSize + 1

\* The one value that cannot be read: an empty string that ends where the
\* chain does, where read() looks at a block that is not there
\* (bytearray.cc:491).
EmptyAtTheEnd(it) == it.kind = "string" /\ it.value = <<>> /\ it.at + it.n = capacity

\* A read of a value's kind where it was written, in the byte order it was
\* written in, returns it; and its bytes are in whatever is sent, or is saved
\* to a file from the beginning of a block on.
ReadsWhatWasWritten ==
    \A it \in items :
        /\ it.kind = last.asked /\ it.at = last.at
             /\ (it.kind = "int" \/ it.endian = last.endian)
             => \/ last.kind = it.kind /\ last.value = it.value
                \/ last.kind = "crash" /\ EmptyAtTheEnd(it)
        /\ last.kind = "bytes" \/ (last.kind = "file" /\ last.at % BaseSize = 0) =>
             LET skip == it.at - last.at IN
             skip >= 0 /\ skip + it.n <= Len(last.value)
                => SubSeq(last.value, skip + 1, skip + it.n) = it.bytes

\* What is written is what is read, whatever the blocks it lies in
\* (bytearray.cc:97-540), but for an empty string at the very end of the chain;
\* and the two cursors of the array never part.
RoundTrip == CursorFollowsPosition /\ ReadsWhatWasWritten
=============================================================================
