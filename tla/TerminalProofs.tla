---------------------------- MODULE TerminalProofs ----------------------------
(***************************************************************************)
(* Proofs about the terminal input buffer (Terminal.tla): the type         *)
(* invariant, and that the reader never sleeps in task_block() while a     *)
(* line is buffered when the keyboard ISR cannot run inside term_read().  *)
(***************************************************************************)
EXTENDS Terminal, TLAPS

(***************************************************************************)
(* The type invariant made inductive: while the reader is between reading *)
(* a character (ReadPop) and storing it (ReadClear), term_read() has      *)
(* stored fewer than count bytes, so the store keeps Len(got) <= count.   *)
(***************************************************************************)
TypeInv ==
  /\ TermTypeOK
  /\ rpc \in {"adv", "clr"} => Len(got) < rcount

(***************************************************************************)
(* No lost wake-up made inductive: delims is 0 from the test that sends   *)
(* the reader to task_block() ("toblock") until it is woken, not only     *)
(* while it sleeps.                                                        *)
(***************************************************************************)
WakeInv ==
  /\ TypeInv
  /\ rpc \in {"toblock", "blocked"} => term.delims = 0


USE BufSizeAssumption, KeysAssumption, TabAssumption, CountAssumption,
    MaxKeysAssumption, IrqAssumption

-----------------------------------------------------------------------------
(* The buffer term_putch() works on and the character it stores. *)
PutchT0(key) == IF key = "ctrlc" THEN TermReset(term) ELSE term
PutchC(key) == IF key = "ctrlc" THEN "nl" ELSE key

(* Reading past the end of the ring wraps to an index of term.buf. *)
LEMMA ModIdx ==
  ASSUME NEW x \in Int
  PROVE  x % TERM_BUFSIZE \in Idx
BY DEF Idx

(***************************************************************************)
(* Updating one field of the buffer record with a value of the field's    *)
(* type keeps it a TermBuf.  The helpers update several fields at once;   *)
(* their lemmas go one field at a time through these.                     *)
(***************************************************************************)
LEMMA SetStart ==
  ASSUME NEW t \in TermBuf, NEW v \in Idx PROVE [t EXCEPT !.start = v] \in TermBuf
BY DEF TermBuf

LEMMA SetEnd ==
  ASSUME NEW t \in TermBuf, NEW v \in Idx PROVE [t EXCEPT !.end = v] \in TermBuf
BY DEF TermBuf

LEMMA SetFull ==
  ASSUME NEW t \in TermBuf, NEW v \in BOOLEAN PROVE [t EXCEPT !.full = v] \in TermBuf
BY DEF TermBuf

LEMMA SetDelims ==
  ASSUME NEW t \in TermBuf, NEW v \in Int PROVE [t EXCEPT !.delims = v] \in TermBuf
BY DEF TermBuf

LEMMA SetBackspace ==
  ASSUME NEW t \in TermBuf, NEW v \in Nat PROVE [t EXCEPT !.backspace = v] \in TermBuf
BY DEF TermBuf

LEMMA SetBuf ==
  ASSUME NEW t \in TermBuf, NEW v \in [Idx -> Stored] PROVE [t EXCEPT !.buf = v] \in TermBuf
BY DEF TermBuf

LEMMA SetBufAt ==
  ASSUME NEW t \in TermBuf, NEW i \in Idx, NEW c \in Stored
  PROVE  [t EXCEPT !.buf[i] = c] \in TermBuf
BY DEF TermBuf

(* term_reset() keeps the record well-formed and clears delims and full. *)
LEMMA ResetFacts ==
  ASSUME NEW t \in TermBuf
  PROVE  /\ TermReset(t) \in TermBuf
         /\ TermReset(t).delims = 0
         /\ ~TermReset(t).full
<1> DEFINE r1 == [t EXCEPT !.start = 0]
           r2 == [r1 EXCEPT !.end = 0]
           r3 == [r2 EXCEPT !.full = FALSE]
           r4 == [r3 EXCEPT !.delims = 0]
           r5 == [r4 EXCEPT !.backspace = 0]
<1>0. 0 \in Idx /\ 0 \in Int /\ 0 \in Nat
  BY DEF Idx
<1>1. r1 \in TermBuf BY <1>0, SetStart, Zenon
<1>2. r2 \in TermBuf BY <1>0, <1>1, SetEnd, Zenon
<1>3. r3 \in TermBuf BY <1>2, SetFull, Zenon
<1>4. r4 \in TermBuf BY <1>0, <1>3, SetDelims, Zenon
<1>5. r5 \in TermBuf BY <1>0, <1>4, SetBackspace, Zenon
<1>6. TermReset(t) = r5
  BY DEF TermReset
<1> HIDE DEF r1, r2
<1>7. r5.delims = 0 /\ ~r5.full
  BY <1>2, <1>3 DEF TermBuf
<1> QED BY <1>5, <1>6, <1>7

(* The '\b' case keeps the record well-formed (backspace stays in Nat *)
(* because term_poplast() is called only when it is positive) and      *)
(* leaves delims alone.                                                 *)
LEMMA EraseFacts ==
  ASSUME NEW t \in TermBuf
  PROVE  /\ Erase(t) \in TermBuf
         /\ Erase(t).delims = t.delims
<1>1. CASE t.backspace = 0
  BY <1>1 DEF Erase
<1>2. CASE t.backspace # 0
  <2> DEFINE r1 == [t EXCEPT !.backspace = @ - 1]
             r2 == [r1 EXCEPT !.end = (@ + (TERM_BUFSIZE - 1)) % TERM_BUFSIZE]
             r3 == [r2 EXCEPT !.full = FALSE]
  <2>1. t.backspace - 1 \in Nat
    BY <1>2 DEF TermBuf
  <2>2. r1 \in TermBuf /\ r1.end = t.end /\ r1.delims = t.delims
    BY <2>1, SetBackspace, Zenon DEF TermBuf
  <2>3. (t.end + (TERM_BUFSIZE - 1)) % TERM_BUFSIZE \in Idx
    <3>1. t.end + (TERM_BUFSIZE - 1) \in Int
      BY DEF TermBuf, Idx
    <3> QED BY <3>1, ModIdx, Zenon
  <2>4. r2 \in TermBuf /\ r2.delims = t.delims
    <3>1. r2 = [r1 EXCEPT !.end = (t.end + (TERM_BUFSIZE - 1)) % TERM_BUFSIZE]
      BY <2>2
    <3> HIDE DEF r1
    <3> QED BY <2>2, <2>3, <3>1, SetEnd, Zenon DEF TermBuf
  <2>5. r3 \in TermBuf /\ r3.delims = t.delims
    <3> HIDE DEF r2
    <3> QED BY <2>4, SetFull, Zenon DEF TermBuf
  <2>6. Erase(t) = r3
    BY <1>2 DEF Erase, TermPoplast
  <2> HIDE DEF r3
  <2> QED BY <2>5, <2>6
<1> QED BY <1>1, <1>2

(* term_push() keeps the record well-formed; it changes delims only when *)
(* it fills the buffer.                                                   *)
LEMMA PushFacts ==
  ASSUME NEW t \in TermBuf, NEW c \in Stored
  PROVE  /\ TermPush(t, c) \in TermBuf
         /\ TermPush(t, c).delims = t.delims \/ TermPush(t, c).full
<1> DEFINE e == (t.end + 1) % TERM_BUFSIZE
           hit == e = t.start
           r1 == [t EXCEPT !.buf[t.end] = c]
           r2 == [r1 EXCEPT !.end = e]
           r3 == [r2 EXCEPT !.full = IF hit THEN TRUE ELSE t.full]
           r4 == [r3 EXCEPT !.delims = IF hit THEN 1 ELSE t.delims]
<1>1. e \in Idx
  <2>1. t.end + 1 \in Int
    BY DEF TermBuf, Idx
  <2> QED BY <2>1, ModIdx, Zenon
<1>2. r1 \in TermBuf /\ r1.full = t.full /\ r1.delims = t.delims
  BY SetBufAt, Zenon DEF TermBuf
<1>3. r2 \in TermBuf /\ r2.full = t.full /\ r2.delims = t.delims
  <2> HIDE DEF r1, e
  <2> QED BY <1>1, <1>2, SetEnd, Zenon DEF TermBuf
<1>4. r3 \in TermBuf /\ r3.full = (IF hit THEN TRUE ELSE t.full)
      /\ r3.delims = t.delims
  <2>1. (IF hit THEN TRUE ELSE t.full) \in BOOLEAN
    BY DEF TermBuf
  <2> HIDE DEF r2, hit
  <2> QED BY <1>3, <2>1, SetFull, Zenon DEF TermBuf
<1>5. r4 \in TermBuf /\ r4.full = (IF hit THEN TRUE ELSE t.full)
      /\ r4.delims = (IF hit THEN 1 ELSE t.delims)
  <2>1. (IF hit THEN 1 ELSE t.delims) \in Int
    BY DEF TermBuf
  <2> HIDE DEF r3, hit
  <2> QED BY <1>4, <2>1, SetDelims, Zenon DEF TermBuf
<1>6. TermPush(t, c) = r4
  BY DEF TermPush
<1> HIDE DEF r1, r2, r3, r4
<1> QED BY <1>5, <1>6

(* The tab loop keeps the record well-formed; it changes delims only when *)
(* it fills the buffer.                                                    *)
LEMMA SpacesFacts ==
  ASSUME NEW t \in TermBuf, NEW n \in Nat
  PROVE  /\ PushSpaces(t, n) \in TermBuf
         /\ PushSpaces(t, n).delims = t.delims \/ PushSpaces(t, n).full
<1> DEFINE hit == \E k \in 1 .. n : (t.end + k) % TERM_BUFSIZE = t.start
           nb == [i \in Idx |->
                    IF \E k \in 0 .. n - 1 : (t.end + k) % TERM_BUFSIZE = i
                    THEN "sp" ELSE t.buf[i]]
           r1 == [t EXCEPT !.buf = nb]
           r2 == [r1 EXCEPT !.end = (t.end + n) % TERM_BUFSIZE]
           r3 == [r2 EXCEPT !.full = t.full \/ hit]
           r4 == [r3 EXCEPT !.delims = IF hit THEN 1 ELSE t.delims]
<1>1. nb \in [Idx -> Stored]
  BY DEF TermBuf, Stored
<1>2. (t.end + n) % TERM_BUFSIZE \in Idx
  <2>1. t.end + n \in Int
    BY DEF TermBuf, Idx
  <2> QED BY <2>1, ModIdx, Zenon
<1>3. r1 \in TermBuf /\ r1.full = t.full /\ r1.delims = t.delims
  <2> HIDE DEF nb
  <2> QED BY <1>1, SetBuf, Zenon DEF TermBuf
<1>4. r2 \in TermBuf /\ r2.full = t.full /\ r2.delims = t.delims
  <2> HIDE DEF r1
  <2> QED BY <1>2, <1>3, SetEnd, Zenon DEF TermBuf
<1>5. r3 \in TermBuf /\ r3.full = (t.full \/ hit) /\ r3.delims = t.delims
  <2>1. (t.full \/ hit) \in BOOLEAN
    OBVIOUS
  <2> HIDE DEF r2, hit
  <2> QED BY <1>4, <2>1, SetFull, Zenon DEF TermBuf
<1>6. r4 \in TermBuf /\ r4.full = (t.full \/ hit)
      /\ r4.delims = (IF hit THEN 1 ELSE t.delims)
  <2>1. (IF hit THEN 1 ELSE t.delims) \in Int
    BY DEF TermBuf
  <2> HIDE DEF r3, hit
  <2> QED BY <1>5, <2>1, SetDelims, Zenon DEF TermBuf
<1>7. PushSpaces(t, n) = r4
  BY DEF PushSpaces
<1> HIDE DEF r1, r2, r3, r4, nb
<1> QED BY <1>6, <1>7

(* The branches of term_putch(key). *)
LEMMA PutchCases ==
  ASSUME NEW key, TermPutch(key)
  PROVE  /\ keys < MaxKeys /\ IsrCanRun /\ keys' = keys + 1
         /\ UNCHANGED <<rcount, rc, got>>
         /\ \/ /\ PutchC(key) = "bs"
               /\ term' = Erase(PutchT0(key)) /\ rpc' = rpc
            \/ /\ PutchC(key) # "bs" /\ PutchT0(key).full
               /\ term' = PutchT0(key) /\ rpc' = Unblock(rpc)
            \/ /\ PutchC(key) \in Delims /\ ~PutchT0(key).full
               /\ term' = TermPush([PutchT0(key) EXCEPT !.delims = @ + 1,
                                                        !.backspace = 0],
                                   PutchC(key))
               /\ rpc' = WakeIfFull(term', Unblock(rpc))
            \/ /\ PutchC(key) = "tab" /\ ~PutchT0(key).full
               /\ \E n \in 1 .. MaxTab :
                    term' = PushSpaces([PutchT0(key) EXCEPT !.backspace = @ + n], n)
               /\ rpc' = WakeIfFull(term', rpc)
            \/ /\ PutchC(key) = "x" /\ ~PutchT0(key).full
               /\ term' = TermPush([PutchT0(key) EXCEPT !.backspace = @ + 1],
                                   PutchC(key))
               /\ rpc' = WakeIfFull(term', rpc)
BY Zenon DEF TermPutch, PutchT0, PutchC


(* The buffer term_putch() starts from is well-formed, and has no       *)
(* buffered line if term had none.                                       *)
LEMMA T0Facts ==
  ASSUME NEW key, term \in TermBuf
  PROVE  /\ PutchT0(key) \in TermBuf
         /\ term.delims = 0 => PutchT0(key).delims = 0
BY ResetFacts DEF PutchT0

(* The character term_putch() stores, after CTRL_C became '\n'. *)
LEMMA PutchCType ==
  ASSUME NEW key \in Keys
  PROVE  PutchC(key) \in {"x", "nl", "eot", "bs", "tab"}
BY DEF PutchC

(* The record term_putch() pushes a delimiter onto. *)
LEMMA DelimRecord ==
  ASSUME NEW t \in TermBuf
  PROVE  [t EXCEPT !.delims = @ + 1, !.backspace = 0] \in TermBuf
<1>1. t.delims + 1 \in Int /\ 0 \in Nat
  BY DEF TermBuf
<1>2. [t EXCEPT !.delims = t.delims + 1] \in TermBuf
  BY <1>1, SetDelims, Zenon
<1> QED BY <1>1, <1>2, SetBackspace, Zenon

(* The record term_putch() pushes an ordinary character or m spaces onto: *)
(* only backspace changes.                                                 *)
LEMMA BackspaceRecord ==
  ASSUME NEW t \in TermBuf, NEW m \in Nat
  PROVE  /\ [t EXCEPT !.backspace = @ + m] \in TermBuf
         /\ [t EXCEPT !.backspace = @ + m].delims = t.delims
<1>1. t.backspace + m \in Nat
  BY DEF TermBuf
<1> QED BY <1>1, SetBackspace, Zenon DEF TermBuf

(* Where the reading task can be. *)
RpcValues == {"user", "check", "toblock", "blocked", "pop", "adv", "clr"}

(* term_putch() keeps the type invariant. *)
LEMMA PutchTypeInv ==
  ASSUME TypeInv, NEW key \in Keys, TermPutch(key)
  PROVE  TypeInv'
<1> DEFINE t0 == PutchT0(key)
           c == PutchC(key)
<1>1. t0 \in TermBuf
  BY T0Facts DEF TypeInv, TermTypeOK
<1>2. c \in {"x", "nl", "eot", "bs", "tab"}
  BY PutchCType
<1>3. rpc \in RpcValues
  BY DEF TypeInv, TermTypeOK, RpcValues
<1> HIDE DEF t0, c
<1>4. /\ term' \in TermBuf /\ rpc' \in RpcValues
      /\ rpc' \in {rpc, "check"}
  <2>1. \A p \in RpcValues : \A u :
          /\ Unblock(p) \in RpcValues /\ WakeIfFull(u, p) \in RpcValues
          /\ Unblock(p) \in {p, "check"} /\ WakeIfFull(u, p) \in {p, "check"}
          /\ WakeIfFull(u, Unblock(p)) \in {p, "check"}
    BY DEF Unblock, WakeIfFull, RpcValues
  <2>2. CASE c = "bs" /\ term' = Erase(t0) /\ rpc' = rpc
    BY <1>1, <1>3, <2>2, EraseFacts
  <2>3. CASE c # "bs" /\ t0.full /\ term' = t0 /\ rpc' = Unblock(rpc)
    BY <1>1, <1>3, <2>1, <2>3
  <2>4. CASE /\ c \in Delims /\ ~t0.full
             /\ term' = TermPush([t0 EXCEPT !.delims = @ + 1, !.backspace = 0], c)
             /\ rpc' = WakeIfFull(term', Unblock(rpc))
    <3>1. c \in Stored
      BY <2>4 DEF Delims, Stored
    <3>2. term' \in TermBuf
      BY <1>1, <2>4, <3>1, DelimRecord, PushFacts
    <3> QED BY <1>3, <2>1, <2>4, <3>2
  <2>5. CASE /\ c = "tab" /\ ~t0.full
             /\ \E n \in 1 .. MaxTab :
                  term' = PushSpaces([t0 EXCEPT !.backspace = @ + n], n)
             /\ rpc' = WakeIfFull(term', rpc)
    <3>1. PICK n \in 1 .. MaxTab :
                term' = PushSpaces([t0 EXCEPT !.backspace = @ + n], n)
      BY <2>5
    <3>2. n \in Nat
      OBVIOUS
    <3>3. term' \in TermBuf
      BY <1>1, <3>1, <3>2, BackspaceRecord, SpacesFacts
    <3> QED BY <1>3, <2>1, <2>5, <3>3
  <2>6. CASE /\ c = "x" /\ ~t0.full
             /\ term' = TermPush([t0 EXCEPT !.backspace = @ + 1], c)
             /\ rpc' = WakeIfFull(term', rpc)
    <3>1. c \in Stored /\ 1 \in Nat
      BY <2>6 DEF Stored
    <3>2. term' \in TermBuf
      BY <1>1, <2>6, <3>1, BackspaceRecord, PushFacts
    <3> QED BY <1>3, <2>1, <2>6, <3>2
  <2> QED BY <2>2, <2>3, <2>4, <2>5, <2>6, PutchCases, Zenon DEF t0, c
<1>5. keys' \in 0 .. MaxKeys /\ UNCHANGED <<rcount, rc, got>>
  <2>1. keys < MaxKeys /\ keys' = keys + 1 /\ UNCHANGED <<rcount, rc, got>>
    BY PutchCases, Zenon
  <2> QED BY <2>1 DEF TypeInv, TermTypeOK
<1>6. rpc' \in {"adv", "clr"} => Len(got') < rcount'
  BY <1>4, <1>5 DEF TypeInv
<1> QED BY <1>4, <1>5, <1>6 DEF TypeInv, TermTypeOK, RpcValues

(* The initial state is well-typed. *)
LEMMA InitTypeInv ==
  Init => TypeInv
<1> SUFFICES ASSUME Init PROVE TypeInv
  OBVIOUS
<1>1. [i \in Idx |-> "nul"] \in [Idx -> Stored] /\ 0 \in Idx
  BY DEF Idx, Stored
<1>2. term \in TermBuf
  BY <1>1 DEF Init, TermBuf
<1> QED BY <1>2 DEF Init, TypeInv, TermTypeOK, Stored

(* term_read()'s steps keep the type invariant. *)
LEMMA ReaderTypeInv ==
  ASSUME TypeInv,
         \/ \E n \in 1 .. MaxCount : ReadCall(n)
         \/ ReadCheck \/ TaskBlock \/ ReadPop \/ ReadAdvance \/ ReadClear
  PROVE  TypeInv'
<1> USE DEF TypeInv, TermTypeOK
<1>1. CASE \E n \in 1 .. MaxCount : ReadCall(n)
  BY <1>1 DEF ReadCall
<1>2. CASE ReadCheck \/ TaskBlock
  BY <1>2 DEF ReadCheck, TaskBlock
<1>3. CASE ReadPop
  <2>1. term.start \in Idx /\ term.buf \in [Idx -> Stored]
    BY DEF TermBuf
  <2> QED BY <1>3, <2>1 DEF ReadPop, Return
<1>4. CASE ReadAdvance
  <2>1. (term.start + 1) % TERM_BUFSIZE \in Idx
    <3>1. term.start + 1 \in Int
      BY DEF TermBuf, Idx
    <3> QED BY <3>1, ModIdx, Zenon
  <2>2. [term EXCEPT !.start = (term.start + 1) % TERM_BUFSIZE] \in TermBuf
    BY <2>1, SetStart, Zenon
  <2> QED BY <1>4, <2>2 DEF ReadAdvance
<1>5. CASE ReadClear
  <2> DEFINE r1 == [term EXCEPT !.full = FALSE]
             d == IF rc \in Delims THEN term.delims - 1 ELSE term.delims
  <2>1. r1 \in TermBuf /\ r1.delims = term.delims
    BY SetFull, Zenon DEF TermBuf
  <2>2. d \in Int
    BY DEF TermBuf
  <2>3. term' = [r1 EXCEPT !.delims = d]
    BY <1>5 DEF ReadClear
  <2> HIDE DEF r1, d
  <2>4. term' \in TermBuf
    BY <2>1, <2>2, <2>3, SetDelims, Zenon
  <2>5. rpc = "clr" /\ Len(got) < rcount
    BY <1>5 DEF ReadClear
  <2>6. got' \in Seq(Stored) /\ Len(got') <= rcount'
    <3>1. CASE rc = "eot"
      BY <1>5, <3>1 DEF ReadClear
    <3>2. CASE rc # "eot"
      <4>1. got' = Append(got, rc) /\ rcount' = rcount
        BY <1>5, <3>2 DEF ReadClear
      <4>2. Append(got, rc) \in Seq(Stored) /\ Len(Append(got, rc)) = Len(got) + 1
        OBVIOUS
      <4> QED BY <2>5, <4>1, <4>2
    <3> QED BY <3>1, <3>2
  <2>7. rpc' \in {"user", "pop"} /\ UNCHANGED <<keys, rcount, rc>>
    BY <1>5 DEF ReadClear, Return
  <2> QED BY <2>4, <2>6, <2>7
<1> QED BY <1>1, <1>2, <1>3, <1>4, <1>5

(* Every step of the terminal keeps the type invariant. *)
LEMMA TypeStep ==
  TypeInv /\ [TermNext]_termVars => TypeInv'
<1> SUFFICES ASSUME TypeInv, [TermNext]_termVars PROVE TypeInv'
  OBVIOUS
<1>1. CASE \E k \in Keys : TermPutch(k)
  BY <1>1, PutchTypeInv
<1>2. CASE \/ \E n \in 1 .. MaxCount : ReadCall(n)
           \/ ReadCheck \/ TaskBlock \/ ReadPop \/ ReadAdvance \/ ReadClear
  BY <1>2, ReaderTypeInv
<1>3. CASE UNCHANGED termVars
  BY <1>3 DEF TypeInv, TermTypeOK, termVars
<1> QED BY <1>1, <1>2, <1>3 DEF TermNext

(***************************************************************************)
(* The terminal is well-typed in every reachable state, for every buffer  *)
(* size and bound: in particular term_read() never stores more than count *)
(* bytes (Len(got) <= rcount), and backspace never goes negative.         *)
(***************************************************************************)
THEOREM TermTypeCorrect == TermSpec => []TermTypeOK
<1>1. Init => TypeInv
  BY InitTypeInv
<1>2. TypeInv /\ [TermNext]_termVars => TypeInv'
  BY TypeStep
<1>3. TypeInv => TermTypeOK
  BY DEF TypeInv
<1> QED BY <1>1, <1>2, <1>3, PTL DEF TermSpec

-----------------------------------------------------------------------------
(* term_putch() either leaves the reader where it is or wakes it. *)
LEMMA PutchRpc ==
  ASSUME NEW key, TermPutch(key)
  PROVE  rpc' \in {rpc, "check"}
<1>1. \A p, u : /\ Unblock(p) \in {p, "check"}
                /\ WakeIfFull(u, p) \in {p, "check"}
                /\ WakeIfFull(u, Unblock(p)) \in {p, "check"}
  BY DEF Unblock, WakeIfFull
<1> QED BY <1>1, PutchCases, Zenon

(***************************************************************************)
(* With interrupts off in term_read(), term_putch() runs only while the   *)
(* reader is in user mode or asleep; if asleep, delims was 0 and every    *)
(* branch that makes it non-zero wakes the reader.                        *)
(***************************************************************************)
LEMMA PutchWake ==
  ASSUME WakeInv, ~IRQS_IN_READ, NEW key \in Keys, TermPutch(key)
  PROVE  rpc' \in {"toblock", "blocked"} => term'.delims = 0
<1>1. rpc \in {"user", "blocked"}
  <2>1. IsrCanRun
    BY PutchCases, Zenon
  <2> QED BY <2>1 DEF IsrCanRun
<1>2. CASE rpc = "user"
  BY <1>2, PutchRpc
<1>3. CASE rpc = "blocked"
  <2> DEFINE t0 == PutchT0(key)
             c == PutchC(key)
  <2>1. t0 \in TermBuf /\ t0.delims = 0
    BY <1>3, T0Facts DEF WakeInv, TypeInv, TermTypeOK
  <2>2. Unblock(rpc) = "check" /\ \A u : WakeIfFull(u, "check") = "check"
    BY <1>3 DEF Unblock, WakeIfFull
  <2>3. \A u : u.full => WakeIfFull(u, rpc) = "check"
    BY <1>3 DEF Unblock, WakeIfFull
  <2> HIDE DEF t0, c
  <2>4. CASE c = "bs" /\ term' = Erase(t0) /\ rpc' = rpc
    BY <2>1, <2>4, EraseFacts
  <2>5. CASE c # "bs" /\ t0.full /\ term' = t0 /\ rpc' = Unblock(rpc)
    BY <2>2, <2>5
  <2>6. CASE /\ c \in Delims /\ ~t0.full
             /\ term' = TermPush([t0 EXCEPT !.delims = @ + 1, !.backspace = 0], c)
             /\ rpc' = WakeIfFull(term', Unblock(rpc))
    BY <2>2, <2>6
  <2>7. CASE /\ c = "tab" /\ ~t0.full
             /\ \E n \in 1 .. MaxTab :
                  term' = PushSpaces([t0 EXCEPT !.backspace = @ + n], n)
             /\ rpc' = WakeIfFull(term', rpc)
    <3>1. PICK n \in 1 .. MaxTab :
                term' = PushSpaces([t0 EXCEPT !.backspace = @ + n], n)
      BY <2>7
    <3>2. n \in Nat
      OBVIOUS
    <3>3. term'.delims = 0 \/ term'.full
      BY <2>1, <3>1, <3>2, BackspaceRecord, SpacesFacts
    <3> QED BY <2>3, <2>7, <3>3
  <2>8. CASE /\ c = "x" /\ ~t0.full
             /\ term' = TermPush([t0 EXCEPT !.backspace = @ + 1], c)
             /\ rpc' = WakeIfFull(term', rpc)
    <3>1. c \in Stored /\ 1 \in Nat
      BY <2>8 DEF Stored
    <3>2. term'.delims = 0 \/ term'.full
      BY <2>1, <2>8, <3>1, BackspaceRecord, PushFacts
    <3> QED BY <2>3, <2>8, <3>2
  <2> QED BY <2>4, <2>5, <2>6, <2>7, <2>8, PutchCases, Zenon DEF t0, c
<1> QED BY <1>1, <1>2, <1>3

(* Every step keeps the wake-up invariant when interrupts are off in term_read(). *)
LEMMA WakeStep ==
  ASSUME ~IRQS_IN_READ, WakeInv, [TermNext]_termVars
  PROVE  WakeInv'
<1>1. TypeInv'
  BY TypeStep DEF WakeInv
<1>2. rpc' \in {"toblock", "blocked"} => term'.delims = 0
  <2>1. CASE \E k \in Keys : TermPutch(k)
    BY <2>1, PutchWake
  <2>2. CASE \E n \in 1 .. MaxCount : ReadCall(n)
    BY <2>2 DEF ReadCall
  <2>3. CASE ReadCheck
    BY <2>3 DEF ReadCheck
  <2>4. CASE TaskBlock
    BY <2>4 DEF TaskBlock, WakeInv
  <2>5. CASE ReadPop
    BY <2>5 DEF ReadPop, Return
  <2>6. CASE ReadAdvance
    BY <2>6 DEF ReadAdvance
  <2>7. CASE ReadClear
    BY <2>7 DEF ReadClear, Return
  <2>8. CASE UNCHANGED termVars
    BY <2>8 DEF WakeInv, termVars
  <2> QED BY <2>1, <2>2, <2>3, <2>4, <2>5, <2>6, <2>7, <2>8 DEF TermNext
<1> QED BY <1>1, <1>2 DEF WakeInv

(***************************************************************************)
(* From the delims test in term_read() until task_block() returns, delims *)
(* is zero, for every buffer size and bound, when the keyboard ISR cannot *)
(* run inside term_read(): the reader tests delims, and every key the ISR *)
(* adds while the reader sleeps either leaves delims alone or wakes it.   *)
(***************************************************************************)
LEMMA WakeInvariant == ~IRQS_IN_READ => (TermSpec => []WakeInv)
<1> SUFFICES ASSUME ~IRQS_IN_READ PROVE TermSpec => []WakeInv
  OBVIOUS
<1>1. Init => WakeInv
  BY InitTypeInv DEF Init, WakeInv
<1>2. WakeInv /\ [TermNext]_termVars => WakeInv'
  BY WakeStep
<1> QED BY <1>1, <1>2, PTL DEF TermSpec

(***************************************************************************)
(* No lost wake-up, for every buffer size and bound: when the keyboard    *)
(* ISR cannot run inside term_read() (interrupts masked in the system     *)
(* call), the reading task never sleeps in task_block() while delims is   *)
(* non-zero.  WakeInv strengthens it to hold from the delims test on,     *)
(* since the step into task_block() does not look at delims again.        *)
(***************************************************************************)
THEOREM NoLostWakeupCorrect == ~IRQS_IN_READ => (TermSpec => []NoLostWakeup)
<1> SUFFICES ASSUME ~IRQS_IN_READ PROVE TermSpec => []NoLostWakeup
  OBVIOUS
<1>1. Init => WakeInv
  BY InitTypeInv DEF Init, WakeInv
<1>2. WakeInv /\ [TermNext]_termVars => WakeInv'
  BY WakeStep
<1>3. WakeInv => NoLostWakeup
  BY DEF WakeInv, NoLostWakeup
<1> QED BY <1>1, <1>2, <1>3, PTL DEF TermSpec

=============================================================================
