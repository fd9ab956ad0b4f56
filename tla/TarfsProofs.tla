------------------------------ MODULE TarfsProofs ------------------------------
(***************************************************************************)
(* Proof that the offset of every open tarfs file stays within the file,  *)
(* for every archive, every set of read counts and lseek offsets and      *)
(* every width of off_t.                                                   *)
(***************************************************************************)
EXTENDS Tarfs, WellFoundedInduction, SequenceTheorems, TLAPS

USE ArchiveAssumption, CountsAssumption, OffsetsAssumption, OffBitsAssumption

(* The sizes tarfs_open reads from the headers are natural numbers: aotoi *)
(* returns a uint64_t.  A fact about the loop of Aotoi, which TLC checks  *)
(* (AotoiCorrect, TarfsTypeOK) and the provers cannot reach by induction. *)
SizesNat == \A i \in 1 .. Len(Archive) : Aotoi(Archive[i].size, SIZE_LEN) \in Nat

(* The inductive invariant: the fields hold integers, and PosInFile. *)
PosInv ==
  /\ file \in [Fds -> [hd : 0 .. Len(Archive), f_size : Int, f_pos : Int]]
  /\ PosInFile

(* tarfs_read leaves the struct file alone, or advances the offset of a  *)
(* file it has not read to the end by what it copied.                     *)
LEMMA ReadCases ==
  ASSUME NEW fd \in Fds, NEW count \in Counts, Read(fd, count)
  PROVE  \/ file' = file
         \/ /\ count # 0
            /\ ~(file[fd].f_pos >= file[fd].f_size)
            /\ file' = [file EXCEPT ![fd].f_pos =
                          file[fd].f_pos + NumRead(file[fd], count)]
<1>1. CASE ReadEarly(file[fd], count)
  BY <1>1, Zenon DEF Read
<1>2. CASE ~ReadEarly(file[fd], count)
  BY <1>2, Zenon DEF Read, ReadEarly
<1>3. QED
  BY <1>1, <1>2

(* tarfs_lseek leaves the struct file alone, or sets the offset to a     *)
(* value below the size and not negative.                                 *)
LEMMA LseekCases ==
  ASSUME NEW fd \in Fds, NEW offset \in Offsets, NEW whence \in Whences,
         Lseek(fd, offset, whence)
  PROVE  \/ file' = file
         \/ \E v \in {LseekTarget(file[fd], offset, whence)} :
              /\ v >= 0 /\ v < file[fd].f_size
              /\ file' = [file EXCEPT ![fd].f_pos = v]
BY Zenon DEF Lseek

(* What lseek computes from integers is an integer. *)
LEMMA LseekTargetInt ==
  ASSUME NEW f \in [hd : 0 .. Len(Archive), f_size : Int, f_pos : Int],
         NEW offset \in Offsets, NEW whence \in {SEEK_SET, SEEK_CUR, SEEK_END}
  PROVE  LseekTarget(f, offset, whence) \in Int
<1>1. \A x \in Int : OffT(x) \in Int
  BY DEF OffT, OFF_HALF
<1>2. QED
  BY <1>1 DEF LseekTarget, SEEK_SET, SEEK_CUR, SEEK_END

(* A path the archive holds is found: the first header with that name    *)
(* exists, by the least-number principle on its index.                    *)
LEMMA FirstMatchFound ==
  ASSUME NEW path, \E i \in 1 .. Len(Archive) : Archive[i].name = path
  PROVE  FirstMatch(path) \in 1 .. Len(Archive)
<1> DEFINE T == {i \in 1 .. Len(Archive) : Archive[i].name = path}
<1>0. Len(Archive) \in Nat
  BY LenProperties
<1>1. T \subseteq Nat /\ T # {}
  <2>1. T \subseteq Nat
    BY <1>0
  <2>2. T # {}
    BY Zenon
  <2>3. QED
    BY <2>1, <2>2
<1>2. \E x \in T : \A y \in T : ~(<<y, x>> \in OpToRel(<, Nat))
  BY <1>1, NatLessThanWellFounded, WFMin
<1>3. PICK x \in T : \A y \in T : ~(<<y, x>> \in OpToRel(<, Nat))
  BY <1>2
<1>4. \A y \in T : ~(y < x)
  BY <1>1, <1>3, Zenon DEF OpToRel
<1>5. x \in 1 .. Len(Archive) /\ Archive[x].name = path
  BY <1>3, Zenon
<1>6. \A j \in 1 .. x - 1 : j < x /\ j \in 1 .. Len(Archive)
  BY <1>0, <1>5
<1>7. \A j \in 1 .. x - 1 : Archive[j].name # path
  BY <1>4, <1>6, Zenon
<1>8. QED
  BY <1>5, <1>7 DEF FirstMatch

-----------------------------------------------------------------------------
(* Each call keeps the fields integers and the offsets within the files. *)
LEMMA PosInvStep ==
  ASSUME SizesNat, PosInv, [Next]_tarfsVars
  PROVE  PosInv'
<1> USE DEF PosInv, PosInFile
<1>1. CASE UNCHANGED tarfsVars
  BY <1>1 DEF tarfsVars
<1>2. CASE Next
  <2>1. PICK fd \in Fds :
          \/ \E path \in Names : Open(fd, path)
          \/ \E count \in Counts : Read(fd, count)
          \/ \E offset \in Offsets, whence \in Whences : Lseek(fd, offset, whence)
          \/ Close(fd)
          \/ Write(fd)
    BY <1>2 DEF Next
  <2>2. CASE \E path \in Names : Open(fd, path)
    <3>1. PICK path \in Names : Open(fd, path)
      BY <2>2
    <3>2. CASE \E i \in 1 .. Len(Archive) : Archive[i].name = path
      <4>1. FirstMatch(path) \in 1 .. Len(Archive)
        BY <3>2, FirstMatchFound
      <4>2. Aotoi(Archive[FirstMatch(path)].size, SIZE_LEN) \in Nat
        BY <4>1 DEF SizesNat
      <4>3. file' = [file EXCEPT ![fd] =
                       [hd |-> FirstMatch(path),
                        f_size |-> Aotoi(Archive[FirstMatch(path)].size, SIZE_LEN),
                        f_pos |-> 0]]
        BY <3>1, <3>2, Zenon DEF Open
      <4>5. [hd |-> FirstMatch(path),
             f_size |-> Aotoi(Archive[FirstMatch(path)].size, SIZE_LEN),
             f_pos |-> 0] \in [hd : 0..Len(Archive), f_size : Int, f_pos : Int]
        BY <4>1, <4>2
      <4>6. file' \in [Fds -> [hd : 0..Len(Archive), f_size : Int, f_pos : Int]]
        BY <4>3, <4>5
      <4>7. \A g \in Fds : file'[g].hd # 0 => 0 =< file'[g].f_pos /\ file'[g].f_pos =< file'[g].f_size
        BY <4>2, <4>3
      <4>4. QED
        BY <4>6, <4>7
    <3>3. CASE ~\E i \in 1 .. Len(Archive) : Archive[i].name = path
      BY <3>1, <3>3 DEF Open
    <3>4. QED
      BY <3>2, <3>3
  <2>3. CASE \E count \in Counts : Read(fd, count)
    <3>1. PICK count \in Counts : Read(fd, count)
      BY <2>3
    <3>2. count \in Nat
      OBVIOUS
    <3>3. CASE file' = file
      BY <3>3
    <3>4. CASE /\ count # 0
               /\ ~(file[fd].f_pos >= file[fd].f_size)
               /\ file' = [file EXCEPT ![fd].f_pos =
                             file[fd].f_pos + NumRead(file[fd], count)]
      <4>1. file[fd].f_pos \in Int /\ file[fd].f_size \in Int /\ file[fd].hd # 0
        BY <3>1 DEF Read
      <4>2. /\ file[fd].f_pos + NumRead(file[fd], count) \in Int
            /\ 0 <= file[fd].f_pos + NumRead(file[fd], count)
            /\ file[fd].f_pos + NumRead(file[fd], count) <= file[fd].f_size
        BY <3>2, <3>4, <4>1 DEF NumRead
      <4>3. QED
        BY <3>4, <4>2
    <3>5. QED
      BY <3>1, <3>3, <3>4, ReadCases
  <2>4. CASE \E offset \in Offsets, whence \in Whences : Lseek(fd, offset, whence)
    <3>1. PICK offset \in Offsets, whence \in Whences : Lseek(fd, offset, whence)
      BY <2>4
    <3>2. CASE file' = file
      BY <3>2
    <3>3. CASE file' # file
      <4>1. whence \in {SEEK_SET, SEEK_CUR, SEEK_END}
        BY <3>1, <3>3 DEF Lseek
      <4>2. LseekTarget(file[fd], offset, whence) \in Int
        BY <4>1, LseekTargetInt
      <4>3. PICK v \in {LseekTarget(file[fd], offset, whence)} :
              /\ v >= 0 /\ v < file[fd].f_size
              /\ file' = [file EXCEPT ![fd].f_pos = v]
        BY <3>1, <3>3, LseekCases
      <4>4. file[fd].hd # 0
        BY <3>1 DEF Lseek
      <4>5. PICK w \in Int : /\ w >= 0 /\ w < file[fd].f_size
                             /\ file' = [file EXCEPT ![fd].f_pos = w]
        BY <4>2, <4>3, Zenon
      <4>6. QED
        BY <4>4, <4>5
    <3>4. QED
      BY <3>2, <3>3
  <2>5. CASE Close(fd)
    BY <2>5 DEF Close, ClosedFile
  <2>6. CASE Write(fd)
    BY <2>6 DEF Write
  <2>7. QED
    BY <2>1, <2>2, <2>3, <2>4, <2>5, <2>6
<1>3. QED
  BY <1>1, <1>2

(***************************************************************************)
(* Whatever sequence of opens, reads, seeks and closes callers make, with *)
(* any counts and offsets (the wrap of an off_t sum included), the offset *)
(* of an open file is never negative and never past its size, provided    *)
(* the headers' sizes parse to natural numbers.                           *)
(***************************************************************************)
THEOREM PosInFileCorrect == SizesNat => (Spec => []PosInFile)
<1> SUFFICES ASSUME SizesNat PROVE Spec => []PosInFile
  OBVIOUS
<1>1. Init => PosInv
  BY DEF Init, PosInv, PosInFile, ClosedFile
<1>2. PosInv /\ [Next]_tarfsVars => PosInv'
  BY PosInvStep
<1>3. PosInv => PosInFile
  BY DEF PosInv
<1>4. QED
  BY <1>1, <1>2, <1>3, PTL DEF Spec
-----------------------------------------------------------------------------
(* The struct file fields as TarfsTypeOK types them. *)
FileRec == [hd : 0 .. Len(Archive), f_size : Nat, f_pos : Int]

(* A read that gets past the early returns copies a natural number of     *)
(* bytes, each a byte of the archive or -1, and moves the offset by it.   *)
LEMMA ReadBody ==
  ASSUME NEW f \in FileRec, NEW count \in Counts, f.hd # 0,
         ~ReadEarly(f, count)
  PROVE  /\ NumRead(f, count) \in Nat
         /\ f.f_pos + NumRead(f, count) \in Int
         /\ DataBytes(Archive[f.hd].data, 0, NumRead(f, count)) \in Seq(Int)
<1>1. count \in Nat /\ f.f_size \in Nat /\ f.f_pos \in Int /\ f.hd \in 1 .. Len(Archive)
  BY DEF FileRec
<1>2. f.f_pos < f.f_size
  BY <1>1 DEF ReadEarly
<1>3. NumRead(f, count) \in Nat
  BY <1>1, <1>2 DEF NumRead
<1>4. Archive[f.hd].data \in Seq(Nat)
  <2> DEFINE Hdr == [name : Names, typeflag : Nat, size : Seq(Nat), data : Seq(Nat)]
  <2>1. Archive \in Seq(Hdr) /\ f.hd \in 1 .. Len(Archive)
    BY <1>1
  <2>2. Archive[f.hd] \in Hdr
    BY <2>1, ElementOfSeq, Zenon
  <2> QED BY <2>2
<1>8. \A i \in 1 .. NumRead(f, count) :
        i <= Len(Archive[f.hd].data) => Archive[f.hd].data[i] \in Nat
  <2> SUFFICES ASSUME NEW i \in 1 .. NumRead(f, count), i <= Len(Archive[f.hd].data)
               PROVE  Archive[f.hd].data[i] \in Nat
    OBVIOUS
  <2>1. Len(Archive[f.hd].data) \in Nat
    BY <1>4, LenProperties
  <2>2. i \in 1 .. Len(Archive[f.hd].data)
    BY <1>3, <2>1
  <2> QED BY <1>4, <2>2, ElementOfSeq, Zenon
<1>5. \A i \in 1 .. NumRead(f, count) :
        (IF 0 + i <= Len(Archive[f.hd].data) THEN Archive[f.hd].data[0 + i] ELSE -1) \in Int
  <2> SUFFICES ASSUME NEW i \in 1 .. NumRead(f, count)
               PROVE  (IF 0 + i <= Len(Archive[f.hd].data)
                       THEN Archive[f.hd].data[0 + i] ELSE -1) \in Int
    OBVIOUS
  <2>1. 0 + i = i /\ -1 \in Int /\ Nat \subseteq Int
    BY <1>3
  <2>2. CASE i <= Len(Archive[f.hd].data)
    BY <1>8, <2>1, <2>2, Zenon
  <2>3. CASE ~(i <= Len(Archive[f.hd].data))
    BY <2>1, <2>3, Zenon
  <2> QED BY <2>2, <2>3
<1>6. DataBytes(Archive[f.hd].data, 0, NumRead(f, count)) \in [1 .. NumRead(f, count) -> Int]
  BY <1>5 DEF DataBytes
<1>9. DataBytes(Archive[f.hd].data, 0, NumRead(f, count)) \in Seq(Int)
  <2>1. DataBytes(Archive[f.hd].data, 0, NumRead(f, count))
          \in UNION {[1 .. n -> Int] : n \in Nat}
    BY <1>3, <1>6, Zenon
  <2> QED BY <2>1, SeqDef, Zenon
<1>10. f.f_pos + NumRead(f, count) \in Int
  BY <1>1, <1>3
<1>7. QED
  BY <1>3, <1>9, <1>10

(* The value an early return of tarfs_read returns is an error code or 0. *)
LEMMA EarlyRetInt ==
  ASSUME NEW f, NEW count
  PROVE  ReadEarlyRet(f, count) \in Int
BY DEF ReadEarlyRet, EINVAL, EISDIR

(* Each call keeps every struct file typed and closed ones zero, and the *)
(* return value and the record of the last copy typed.                    *)
LEMMA TarfsTypeStep ==
  ASSUME SizesNat, TarfsTypeOK, [Next]_tarfsVars
  PROVE  TarfsTypeOK'
<1>0. /\ file \in [Fds -> FileRec]
      /\ \A fd \in Fds : file[fd].hd = 0 => file[fd] = ClosedFile
      /\ ret \in Int /\ copied.hd \in 0 .. Len(Archive) /\ copied.bytes \in Seq(Int)
  BY DEF TarfsTypeOK, FileRec
<1> SUFFICES /\ file' \in [Fds -> FileRec]
             /\ \A fd \in Fds : file'[fd].hd = 0 => file'[fd] = ClosedFile
             /\ ret' \in Int /\ copied'.hd \in 0 .. Len(Archive) /\ copied'.bytes \in Seq(Int)
  BY DEF TarfsTypeOK, FileRec
<1>1. CASE UNCHANGED tarfsVars
  BY <1>0, <1>1 DEF tarfsVars
<1>2. CASE Next
  <2>1. PICK fd \in Fds :
          \/ \E path \in Names : Open(fd, path)
          \/ \E count \in Counts : Read(fd, count)
          \/ \E offset \in Offsets, whence \in Whences : Lseek(fd, offset, whence)
          \/ Close(fd)
          \/ Write(fd)
    BY <1>2 DEF Next
  <2>2. CASE \E path \in Names : Open(fd, path)
    <3>1. PICK path \in Names : Open(fd, path)
      BY <2>2
    <3>2. CASE \E i \in 1 .. Len(Archive) : Archive[i].name = path
      <4>1. FirstMatch(path) \in 1 .. Len(Archive)
        BY <3>2, FirstMatchFound
      <4>2. Aotoi(Archive[FirstMatch(path)].size, SIZE_LEN) \in Nat
        BY <4>1 DEF SizesNat
      <4>3. /\ file' = [file EXCEPT ![fd] =
                          [hd |-> FirstMatch(path),
                           f_size |-> Aotoi(Archive[FirstMatch(path)].size, SIZE_LEN),
                           f_pos |-> 0]]
            /\ ret' = 0 /\ copied' = copied
        BY <3>1, <3>2, Zenon DEF Open
      <4> DEFINE nf == [hd |-> FirstMatch(path),
                        f_size |-> Aotoi(Archive[FirstMatch(path)].size, SIZE_LEN),
                        f_pos |-> 0]
      <4>4. nf \in FileRec /\ nf.hd # 0
        BY <4>1, <4>2 DEF FileRec
      <4>5. file' \in [Fds -> FileRec]
        BY <1>0, <4>3, <4>4
      <4>6. \A g \in Fds : file'[g].hd = 0 => file'[g] = ClosedFile
        BY <1>0, <4>3, <4>4
      <4>7. QED
        BY <1>0, <4>3, <4>5, <4>6
    <3>3. CASE ~\E i \in 1 .. Len(Archive) : Archive[i].name = path
      BY <1>0, <3>1, <3>3 DEF Open, ENOENT
    <3>4. QED
      BY <3>2, <3>3
  <2>3. CASE \E count \in Counts : Read(fd, count)
    <3>1. PICK count \in Counts : Read(fd, count)
      BY <2>3
    <3> DEFINE f == file[fd]
    <3>2. f \in FileRec /\ f.hd # 0
      BY <1>0, <3>1 DEF Read
    <3>3. CASE ReadEarly(f, count)
      <4>1. ret' = ReadEarlyRet(f, count) /\ file' = file /\ copied' = copied
        BY <3>1, <3>3, Zenon DEF Read
      <4>2. QED
        BY <1>0, <4>1, EarlyRetInt
    <3>4. CASE ~ReadEarly(f, count)
      <4>1. /\ copied' = [hd |-> f.hd, off |-> f.f_pos,
                          bytes |-> DataBytes(Archive[f.hd].data, 0, NumRead(f, count))]
            /\ file' = [file EXCEPT ![fd].f_pos = f.f_pos + NumRead(f, count)]
            /\ ret' = NumRead(f, count)
        BY <3>1, <3>4, Zenon DEF Read
      <4>2. /\ NumRead(f, count) \in Nat
            /\ f.f_pos + NumRead(f, count) \in Int
            /\ DataBytes(Archive[f.hd].data, 0, NumRead(f, count)) \in Seq(Int)
        BY <3>2, <3>4, ReadBody
      <4>3. f.hd \in 0 .. Len(Archive)
        BY <3>2 DEF FileRec
      <4>4. file' \in [Fds -> FileRec]
        BY <1>0, <4>1, <4>2 DEF FileRec
      <4>5. \A g \in Fds : file'[g].hd = 0 => file'[g] = ClosedFile
        BY <1>0, <3>2, <4>1
      <4>6. copied'.hd \in 0 .. Len(Archive)
            /\ copied'.bytes \in Seq(Int) /\ ret' \in Int
        BY <4>1, <4>2, <4>3
      <4>7. QED
        BY <4>4, <4>5, <4>6
    <3>5. QED
      BY <3>3, <3>4
  <2>4. CASE \E offset \in Offsets, whence \in Whences : Lseek(fd, offset, whence)
    <3>1. PICK offset \in Offsets, whence \in Whences : Lseek(fd, offset, whence)
      BY <2>4
    <3> DEFINE f == file[fd]
               v == LseekTarget(f, offset, whence)
    <3>2. f \in FileRec /\ f.hd # 0 /\ copied' = copied
      BY <1>0, <3>1 DEF Lseek
    <3>3. CASE whence \in {SEEK_SET, SEEK_CUR, SEEK_END} /\ v >= 0 /\ v < f.f_size
      <4>1. file' = [file EXCEPT ![fd].f_pos = v] /\ ret' = v
        BY <3>1, <3>3, Zenon DEF Lseek
      <4>2. v \in Int
        <5>1. f \in [hd : 0 .. Len(Archive), f_size : Int, f_pos : Int]
          BY <3>2 DEF FileRec
        <5>2. QED
          BY <3>3, <5>1, LseekTargetInt
      <4>3. QED
        BY <1>0, <3>2, <4>1, <4>2 DEF FileRec
    <3>4. CASE ~(whence \in {SEEK_SET, SEEK_CUR, SEEK_END} /\ v >= 0 /\ v < f.f_size)
      <4>1. ret' = EINVAL /\ file' = file
        BY <3>1, <3>4, Zenon DEF Lseek
      <4>2. QED
        BY <1>0, <3>2, <4>1 DEF EINVAL
    <3>5. QED
      BY <3>3, <3>4
  <2>5. CASE Close(fd)
    BY <1>0, <2>5 DEF Close, ClosedFile, FileRec
  <2>6. CASE Write(fd)
    BY <1>0, <2>6 DEF Write, EINVAL
  <2>7. QED
    BY <2>1, <2>2, <2>3, <2>4, <2>5, <2>6
<1>3. QED
  BY <1>1, <1>2

(***************************************************************************)
(* Whatever sequence of opens, reads, seeks, closes and writes callers    *)
(* make, provided the headers' sizes parse to natural numbers, every      *)
(* struct file refers to a header of the archive with a natural size and  *)
(* an integer offset, or is all zero as tarfs_close() leaves it; a read   *)
(* returns an integer and copies a sequence of bytes.                     *)
(***************************************************************************)
THEOREM TarfsTypeCorrect == SizesNat => (Spec => []TarfsTypeOK)
<1> SUFFICES ASSUME SizesNat PROVE Spec => []TarfsTypeOK
  OBVIOUS
<1>1. Init => TarfsTypeOK
  BY DEF Init, TarfsTypeOK, ClosedFile, NoCopy
<1>2. TarfsTypeOK /\ [Next]_tarfsVars => TarfsTypeOK'
  BY TarfsTypeStep
<1>3. QED
  BY <1>1, <1>2, PTL DEF Spec
=============================================================================
