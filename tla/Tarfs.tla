-------------------------------- MODULE Tarfs --------------------------------
(***************************************************************************)
(* The read-only tar filesystem of src/sys/tarfs.c: tarfs_open looks a     *)
(* path up in the archive and fills a struct file, tarfs_read copies file  *)
(* data to the user and advances the offset, tarfs_lseek moves the offset  *)
(* and tarfs_close clears the struct file.  Every call is a system call on *)
(* one task and runs to completion, so each is one atomic step.            *)
(*                                                                         *)
(* Characters are their ASCII codes (0 is NUL, 48 .. 55 are '0' .. '7'),   *)
(* so aotoi does what the C does: *optr - '0'.  A header is a record of    *)
(* its name, its typeflag character, its 12-byte size field and the data   *)
(* that follows it in the archive.                                         *)
(***************************************************************************)
EXTENDS Integers, Sequences

CONSTANTS
  Archive,   \* the headers tarfs_first/tarfs_next walk, in archive order
  Names,     \* the paths (after the leading '/') that callers open
  Fds,       \* the struct file objects callers hand to the filesystem
  Counts,    \* the count arguments of read(2)
  Offsets,   \* the offset arguments of lseek(2)
  OFF_BITS   \* the width of off_t

SIZE_LEN == 12          \* sizeof(hd->size)
NUL == 0
TARFS_DIRECTORY == 53   \* '5'

(* A well-formed archive: each header's data holds at least the bytes its *)
(* size field says, as the tool that builds the archive writes it.        *)
ASSUME ArchiveAssumption ==
  /\ Archive \in Seq([name : Names, typeflag : Nat, size : Seq(Nat),
                      data : Seq(Nat)])
  /\ \A i \in 1 .. Len(Archive) : Len(Archive[i].size) <= SIZE_LEN
ASSUME CountsAssumption == Counts \subseteq Nat
ASSUME OffsetsAssumption == Offsets \subseteq Int
ASSUME OffBitsAssumption == OFF_BITS \in Nat \ {0} /\ 2^(OFF_BITS - 1) \in Nat \ {0}

ENOENT == -2
EISDIR == -21
EINVAL == -22
SEEK_SET == 0
SEEK_CUR == 1
SEEK_END == 2
Whences == {SEEK_SET, SEEK_CUR, SEEK_END, 3}

(* off_t arithmetic: signed OFF_BITS-bit two's complement, as the build  *)
(* wraps a signed addition that overflows.                                *)
OFF_HALF == 2^(OFF_BITS - 1)
OffT(x) == ((x + OFF_HALF) % (2 * OFF_HALF)) - OFF_HALF

(* The character at position i, with the string's NUL terminator after it. *)
CharAt(s, i) == IF i <= Len(s) THEN s[i] ELSE NUL

OctDigit(c) == c >= 48 /\ c <= 55

(* Mutant: the loop test without *optr <= '7', taking '8' and '9' as digits. *)
AotoiAnyDigit(s, length) ==
  LET n == IF length > 0 THEN length ELSE 0
      loop[k \in 0 .. n] ==
        IF k = 0 THEN [val |-> 0, stop |-> FALSE]
        ELSE IF loop[k - 1].stop \/ ~(CharAt(s, k) >= 48 /\ CharAt(s, k) <= 57)
             THEN [loop[k - 1] EXCEPT !.stop = TRUE]
             ELSE [val |-> loop[k - 1].val * 8 + (CharAt(s, k) - 48),
                   stop |-> FALSE]
  IN loop[n].val

(***************************************************************************)
(* aotoi(optr, length): the loop, one iteration per k, stops at the first *)
(* non-octal character or after length characters.  Lengths are at most   *)
(* 12 (sizeof(hd->size)), so val < 8^12 and the uint64_t never wraps.     *)
(***************************************************************************)
Aotoi(s, length) ==
  LET n == IF length > 0 THEN length ELSE 0
      loop[k \in 0 .. n] ==
        IF k = 0 THEN [val |-> 0, stop |-> FALSE]
        ELSE IF loop[k - 1].stop \/ ~OctDigit(CharAt(s, k))
             THEN [loop[k - 1] EXCEPT !.stop = TRUE]
             ELSE [val |-> loop[k - 1].val * 8 + (CharAt(s, k) - 48),
                   stop |-> FALSE]
  IN loop[n].val

(* A normal file: typeflag '0' or NUL, the two cases tarfs_print calls a  *)
(* "normal file".                                                          *)
IsFile(hd) == Archive[hd].typeflag \in {NUL, 48}

(* The struct file of a descriptor no one has opened, or one tarfs_close  *)
(* has zeroed: private_data is NULL (hd = 0).                              *)
ClosedFile == [hd |-> 0, f_size |-> 0, f_pos |-> 0]

VARIABLES
  file,    \* Fds -> the struct file fields tarfs uses
  ret,     \* what the last call returned
  copied   \* what the last read copied to the user: header, offset, bytes

tarfsVars == <<file, ret, copied>>

NoCopy == [hd |-> 0, off |-> 0, bytes |-> <<>>]

Init ==
  /\ file = [fd \in Fds |-> ClosedFile]
  /\ ret = 0
  /\ copied = NoCopy

(* The first header, in archive order, whose name is the path. *)
FirstMatch(path) ==
  CHOOSE i \in 1 .. Len(Archive) :
    /\ Archive[i].name = path
    /\ \A j \in 1 .. i - 1 : Archive[j].name # path

(***************************************************************************)
(* tarfs_open(path, fp) on a struct file the caller has not opened.  The  *)
(* kpanics on a path without '/' or a NULL fp are not reachable from the  *)
(* callers modelled.                                                       *)
(***************************************************************************)
Open(fd, path) ==
  /\ file[fd].hd = 0
  /\ IF \E i \in 1 .. Len(Archive) : Archive[i].name = path
     THEN LET hd == FirstMatch(path) IN
          /\ file' = [file EXCEPT ![fd] =
                        [hd |-> hd, f_size |-> Aotoi(Archive[hd].size, SIZE_LEN),
                         f_pos |-> 0]]
          /\ ret' = 0
     ELSE /\ ret' = ENOENT
          /\ UNCHANGED file
  /\ UNCHANGED copied

(* n bytes of data d after the first lo; a byte past the end of d is     *)
(* whatever follows the file in the archive, -1 here.                      *)
DataBytes(d, lo, n) == [i \in 1 .. n |-> IF lo + i <= Len(d) THEN d[lo + i] ELSE -1]

(* Mutant: num_read = count, without the MIN with bytes_left. *)
NumReadNoMin(f, count) == count

(* Number of bytes a read of count bytes at the offset copies: MIN(bytes_left, count). *)
NumRead(f, count) == IF f.f_size - f.f_pos < count THEN f.f_size - f.f_pos ELSE count

(* The early returns of tarfs_read, in the order the code tests them. *)
ReadEarly(f, count) ==
  \/ f.f_pos < 0
  \/ Archive[f.hd].typeflag = TARFS_DIRECTORY
  \/ ~IsFile(f.hd)
  \/ count = 0 \/ f.f_pos >= f.f_size

(* What the first early return that applies returns. *)
ReadEarlyRet(f, count) ==
  IF f.f_pos < 0 THEN EINVAL
  ELSE IF Archive[f.hd].typeflag = TARFS_DIRECTORY THEN EISDIR
  ELSE IF ~IsFile(f.hd) THEN EINVAL
  ELSE 0

(***************************************************************************)
(* tarfs_read(fp, buf, count, &fp->f_pos).  memcpy copies from file_data, *)
(* the first byte of the file, whatever the offset.                        *)
(***************************************************************************)
Read(fd, count) ==
  LET f == file[fd]
      n == NumRead(f, count)
  IN
  /\ f.hd # 0
  /\ IF ReadEarly(f, count)
     THEN /\ ret' = ReadEarlyRet(f, count)
          /\ UNCHANGED <<file, copied>>
     ELSE /\ copied' = [hd |-> f.hd, off |-> f.f_pos,
                        bytes |-> DataBytes(Archive[f.hd].data, 0, n)]
          /\ file' = [file EXCEPT ![fd].f_pos = f.f_pos + n]
          /\ ret' = n

(* The offset lseek asks for with a known whence. *)
LseekTarget(f, offset, whence) ==
  CASE whence = SEEK_SET -> offset
    [] whence = SEEK_CUR -> OffT(f.f_pos + offset)
    [] whence = SEEK_END -> OffT(f.f_size + offset)

(***************************************************************************)
(* tarfs_lseek(fp, offset, whence): every whence rejects a target below 0 *)
(* or at or past f_size, so even SEEK_END with offset 0 fails.            *)
(***************************************************************************)
Lseek(fd, offset, whence) ==
  LET f == file[fd]
      new_off == LseekTarget(f, offset, whence)
  IN
  /\ f.hd # 0
  /\ IF whence \in {SEEK_SET, SEEK_CUR, SEEK_END}
        /\ new_off >= 0 /\ new_off < f.f_size
     THEN /\ file' = [file EXCEPT ![fd].f_pos = new_off]
          /\ ret' = new_off
     ELSE /\ ret' = EINVAL
          /\ UNCHANGED file
  /\ UNCHANGED copied

(* Mutant: close clears private_data only and keeps the old offset. *)
CloseKeepPos(fd) ==
  /\ file[fd].hd # 0
  /\ file' = [file EXCEPT ![fd].hd = 0]
  /\ ret' = 0
  /\ UNCHANGED copied

(* tarfs_close(fp): memset(fp, 0, sizeof(struct file)). *)
Close(fd) ==
  /\ file[fd].hd # 0
  /\ file' = [file EXCEPT ![fd] = ClosedFile]
  /\ ret' = 0
  /\ UNCHANGED copied

(* tarfs_write: the filesystem is read-only. *)
Write(fd) ==
  /\ file[fd].hd # 0
  /\ ret' = EINVAL
  /\ UNCHANGED <<file, copied>>

Next ==
  \E fd \in Fds :
    \/ \E path \in Names : Open(fd, path)
    \/ \E count \in Counts : Read(fd, count)
    \/ \E offset \in Offsets, whence \in Whences : Lseek(fd, offset, whence)
    \/ Close(fd)
    \/ Write(fd)

Spec == Init /\ [][Next]_tarfsVars

-----------------------------------------------------------------------------
(* Every struct file refers to a header of the archive, or is closed and *)
(* all zero, as a fresh one is.                                           *)
TarfsTypeOK ==
  /\ file \in [Fds -> [hd : 0 .. Len(Archive), f_size : Nat, f_pos : Int]]
  /\ \A fd \in Fds : file[fd].hd = 0 => file[fd] = ClosedFile
  /\ ret \in Int
  /\ copied.hd \in 0 .. Len(Archive)
  /\ copied.bytes \in Seq(Int)

(***************************************************************************)
(* The offset of every open file stays within the file, 0 <= f_pos <=     *)
(* f_size, through any sequence of reads and seeks in any direction: so  *)
(* tarfs_read never computes bytes_left past the end or reads before the  *)
(* start.                                                                  *)
(***************************************************************************)
PosInFile ==
  \A fd \in Fds : file[fd].hd # 0 => 0 <= file[fd].f_pos /\ file[fd].f_pos <= file[fd].f_size

(***************************************************************************)
(* What the comment on tarfs_read promises: it "reads count bytes from    *)
(* the given file at position offset", so the bytes the last read copied  *)
(* are the file's bytes from the offset the read started at.              *)
(***************************************************************************)
ReadDataCorrect ==
  copied.hd # 0 =>
    copied.bytes = DataBytes(Archive[copied.hd].data, copied.off, Len(copied.bytes))
=============================================================================
