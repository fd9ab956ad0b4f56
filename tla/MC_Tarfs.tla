------------------------------- MODULE MC_Tarfs -------------------------------
(***************************************************************************)
(* Tarfs on a small archive: a file whose name appears twice (only the    *)
(* first is found), a directory, a symbolic link, an empty file, and a    *)
(* name the archive lacks.  Data bytes are distinct so that a read from   *)
(* the wrong place shows.                                                  *)
(***************************************************************************)
EXTENDS TarfsProofs, FiniteSetsExt

MC_Archive ==
  << [name |-> "a", typeflag |-> 48, size |-> <<48, 51, NUL>>, data |-> <<65, 66, 67>>],
     [name |-> "d", typeflag |-> 53, size |-> <<48>>,          data |-> <<>>],
     [name |-> "a", typeflag |-> 48, size |-> <<48, 49>>,      data |-> <<90>>],
     [name |-> "l", typeflag |-> 50, size |-> <<48>>,          data |-> <<>>],
     [name |-> "e", typeflag |-> NUL, size |-> <<>>,           data |-> <<>>] >>

MC_Offsets == {-1, 0, 1, 2, 7}

(***************************************************************************)
(* The octal value of a string read as the loop of aotoi reads it, from   *)
(* the definition of base 8: the digits before the first non-octal        *)
(* character among the first length characters, weighted by powers of 8. *)
(***************************************************************************)
OctalRef(s, length) ==
  LET k == CHOOSE m \in 0 .. (IF length > 0 THEN length ELSE 0) :
             /\ \A i \in 1 .. m : OctDigit(CharAt(s, i))
             /\ (m < length => ~OctDigit(CharAt(s, m + 1)))
  IN MapThenSumSet(LAMBDA i : (CharAt(s, i) - 48) * 8^(k - i), 1 .. k)

(* The characters the strings below are made of: NUL, ' ', '0', '1', '7', '8'. *)
Chars == {NUL, 32, 48, 49, 55, 56}
OctStrings == UNION {[1 .. l -> Chars] : l \in 0 .. 3}

(***************************************************************************)
(* aotoi computes the octal value of every string of up to three of these *)
(* characters for every length up to 4: it stops at the first non-octal   *)
(* character, at the terminator, and after length characters.  And the    *)
(* f_size tarfs_open stores is the octal value of the header's size field. *)
(***************************************************************************)
AotoiCorrect ==
  /\ \A s \in OctStrings, l \in 0 .. 4 : Aotoi(s, l) = OctalRef(s, l)
  /\ \A fd \in Fds :
       file[fd].hd # 0 =>
         file[fd].f_size = OctalRef(Archive[file[fd].hd].size, SIZE_LEN)

(* The hypothesis of PosInFileCorrect holds of this archive. *)
ASSUME MC_SizesNat == SizesNat

(* The table of test_aotoi: "01234567", "055", "01", "04672" and "". *)
ASSUME AotoiTests ==
  /\ Aotoi(<<48, 49, 50, 51, 52, 53, 54, 55>>, 12) = 342391
  /\ Aotoi(<<48, 53, 53>>, 12) = 45
  /\ Aotoi(<<48, 49>>, 12) = 1
  /\ Aotoi(<<48, 52, 54, 55, 50>>, 12) = 2490
  /\ Aotoi(<<>>, 12) = 0
=============================================================================
