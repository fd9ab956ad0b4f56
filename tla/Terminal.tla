------------------------------- MODULE Terminal -------------------------------
(***************************************************************************)
(* The terminal input buffer of src/sys/fs/terminal.c: the ring buffer     *)
(* struct terminal_buf term, filled by the keyboard interrupt through      *)
(* term_putch() and drained by term_read() running in a task.              *)
(*                                                                         *)
(* term_putch() runs in the keyboard ISR with interrupts disabled (the     *)
(* NOTE at its head), so each call is one atomic step.  term_read() runs   *)
(* in the reading task; it is one step per statement that touches the      *)
(* buffer, and the ISR may run between two of them when interrupts are     *)
(* enabled in the system call (IRQS_IN_READ) and always while the task is  *)
(* outside term_read() or blocked in task_block().                         *)
(*                                                                         *)
(* Characters are abstracted to what the code tells apart: "x" an ordinary *)
(* character, "nl" '\n', "eot" EOT (^D), "bs" '\b', "tab" '\t', "ctrlc"    *)
(* CTRL_C; "sp" is the ' ' a tab expands to and "nul" the initial 0 byte.  *)
(* Local echo (term.echo is never cleared) only prints and is left out.    *)
(***************************************************************************)
EXTENDS Integers, Sequences

CONSTANTS
  TERM_BUFSIZE,  \* size of term.buf (4096 in the code)
  Keys,          \* characters the keyboard may deliver
  MaxTab,        \* largest curr_tab_to_spaces() result
  MaxCount,      \* largest count passed to term_read()
  MaxKeys,       \* bound on the number of keystrokes
  IRQS_IN_READ   \* whether the ISR can run inside term_read()

ASSUME BufSizeAssumption == TERM_BUFSIZE \in Nat \ {0}
ASSUME KeysAssumption == Keys \subseteq {"x", "nl", "eot", "bs", "tab", "ctrlc"}
ASSUME TabAssumption == MaxTab \in Nat \ {0}
ASSUME CountAssumption == MaxCount \in Nat
ASSUME MaxKeysAssumption == MaxKeys \in Nat
ASSUME IrqAssumption == IRQS_IN_READ \in BOOLEAN

VARIABLES
  term,      \* struct terminal_buf term
  keys,      \* number of keystrokes delivered (bounded)
  rpc,       \* where the reading task is in term_read()
  rcount,    \* term_read()'s count
  rc,        \* term_popfirst()'s local c
  got        \* the bytes term_read() has stored into buf so far

termVars == <<term, keys, rpc, rcount, rc, got>>

Idx == 0 .. TERM_BUFSIZE - 1
Stored == {"x", "nl", "eot", "sp", "nul"}
Delims == {"nl", "eot"}
TermBuf == [start : Idx, end : Idx, full : BOOLEAN, delims : Int,
            backspace : Nat, buf : [Idx -> Stored]]

(* term_reset(): every field but the bytes of buf. *)
TermReset(t) ==
  [t EXCEPT !.start = 0, !.end = 0, !.full = FALSE, !.delims = 0,
            !.backspace = 0]

(* term_push(): store at end, advance end; catching up with start marks *)
(* the buffer full and forces delims to 1.                               *)
TermPush(t, c) ==
  LET e == (t.end + 1) % TERM_BUFSIZE
  IN [t EXCEPT !.buf[t.end] = c, !.end = e,
               !.full = IF e = t.start THEN TRUE ELSE @,
               !.delims = IF e = t.start THEN 1 ELSE @]

(***************************************************************************)
(* The while(spaces--) term_push(' ') loop of the tab case, as the state   *)
(* after its n calls of term_push(): the k-th call (k = 0 .. n-1) writes   *)
(* ' ' at (end + k) % TERM_BUFSIZE, end advances by n, and full and delims *)
(* are set as soon as some call's new end meets start.  MC_Terminal checks *)
(* it against the loop, written as a recursive function.                   *)
(***************************************************************************)
PushSpaces(t, n) ==
  LET hit == \E k \in 1 .. n : (t.end + k) % TERM_BUFSIZE = t.start
  IN [t EXCEPT
        !.buf = [i \in Idx |->
                   IF \E k \in 0 .. n - 1 : (t.end + k) % TERM_BUFSIZE = i
                   THEN "sp" ELSE t.buf[i]],
        !.end = (@ + n) % TERM_BUFSIZE,
        !.full = @ \/ hit,
        !.delims = IF hit THEN 1 ELSE @]

(* term_poplast(), called only when backspace > 0. *)
TermPoplast(t) ==
  [t EXCEPT !.backspace = @ - 1,
            !.end = (@ + (TERM_BUFSIZE - 1)) % TERM_BUFSIZE,
            !.full = FALSE]

(* The buffer is empty for term_popfirst(): start = end and not full. *)
Empty(t) == t.start = t.end /\ ~t.full

-----------------------------------------------------------------------------
Init ==
  /\ term = [start |-> 0, end |-> 0, full |-> FALSE, delims |-> 0,
             backspace |-> 0, buf |-> [i \in Idx |-> "nul"]]
  /\ keys = 0
  /\ rpc = "user"
  /\ rcount = 0
  /\ rc = "nul"
  /\ got = <<>>

(* The keyboard ISR can run: the task is outside term_read() or blocked, *)
(* or interrupts are enabled inside the system call.                      *)
IsrCanRun == IRQS_IN_READ \/ rpc \in {"user", "blocked"}

(* task_unblock_foreground(&term): the blocked reader becomes runnable. *)
Unblock(p) == IF p = "blocked" THEN "check" ELSE p

(* Seeded fault (mutation test of TermTypeOK): '\b' without the test of *)
(* backspace == 0.                                                        *)
EraseNoCheck(t) == TermPoplast(t)

(* The '\b' case: nothing to erase returns, else term_poplast(). *)
Erase(t) == IF t.backspace = 0 THEN t ELSE TermPoplast(t)

(* Seeded fault (mutation test of NoLostWakeup): no wake-up at the end. *)
WakeIfFullNever(t, p) == p

(* if(term.full) task_unblock_foreground(&term) at the end of term_putch(). *)
WakeIfFull(t, p) == IF t.full THEN Unblock(p) ELSE p

(***************************************************************************)
(* term_putch(c): CTRL_C resets the buffer and becomes '\n'; '\b' pops    *)
(* the last character if backspace allows; a full buffer drops c and     *)
(* wakes the reader; a delimiter is counted, ends the erasable run and    *)
(* wakes the reader; a tab pushes 1..MaxTab spaces (its width depends on  *)
(* the cursor column); anything else is pushed.  A full buffer at the end *)
(* wakes the reader.  Sending SIGINT to the foreground task is left out.  *)
(***************************************************************************)
TermPutch(key) ==
  LET t0 == IF key = "ctrlc" THEN TermReset(term) ELSE term
      c == IF key = "ctrlc" THEN "nl" ELSE key
  IN /\ keys < MaxKeys
     /\ IsrCanRun
     /\ keys' = keys + 1
     /\ \/ /\ c = "bs"
           /\ term' = Erase(t0)
           /\ UNCHANGED rpc
        \/ /\ c # "bs" /\ t0.full
           /\ term' = t0
           /\ rpc' = Unblock(rpc)
        \/ /\ c \in Delims /\ ~t0.full
           /\ term' = TermPush([t0 EXCEPT !.delims = @ + 1, !.backspace = 0], c)
           /\ rpc' = WakeIfFull(term', Unblock(rpc))
        \/ /\ c = "tab" /\ ~t0.full
           /\ \E n \in 1 .. MaxTab :
                term' = PushSpaces([t0 EXCEPT !.backspace = @ + n], n)
           /\ rpc' = WakeIfFull(term', rpc)
        \/ /\ c = "x" /\ ~t0.full
           /\ term' = TermPush([t0 EXCEPT !.backspace = @ + 1], c)
           /\ rpc' = WakeIfFull(term', rpc)
     /\ UNCHANGED <<rcount, rc, got>>

(***************************************************************************)
(* term_read(fp, buf, count, offset) in the reading task.  The argument   *)
(* checks (-EINVAL) and the foreground check (-EIO) fail only for callers *)
(* other than the foreground shell this model reads for.  count = 0       *)
(* returns 0 at once without touching the buffer, a stutter here, so the  *)
(* calls that matter have 1 <= count.                                      *)
(***************************************************************************)
ReadCall(n) ==
  /\ rpc = "user"
  /\ rpc' = "check"
  /\ rcount' = n
  /\ got' = <<>>
  /\ UNCHANGED <<term, keys, rc>>

(* while(tb->delims == 0): test the count of buffered lines. *)
ReadCheck ==
  /\ rpc = "check"
  /\ rpc' = IF term.delims = 0 THEN "toblock" ELSE "pop"
  /\ UNCHANGED <<term, keys, rcount, rc, got>>

(* task_block(tb): sleep until task_unblock_foreground() wakes the task. *)
TaskBlock ==
  /\ rpc = "toblock"
  /\ rpc' = "blocked"
  /\ UNCHANGED <<term, keys, rcount, rc, got>>

(* return num_read: the task is back in user mode. *)
Return == rpc' = "user"

(* Seeded fault (mutation test of ReadReturns): no break on c < 0.  The *)
(* empty-buffer return of term_popfirst() is ignored and the loop spins.  *)
ReadPopNoBreak ==
  /\ rpc = "pop"
  /\ \/ /\ Len(got) = rcount
        /\ Return
        /\ UNCHANGED rc
     \/ /\ Len(got) < rcount /\ ~Empty(term)
        /\ rc' = term.buf[term.start]
        /\ rpc' = "adv"
  /\ UNCHANGED <<term, keys, rcount, got>>

(***************************************************************************)
(* while(count--) c = term_popfirst(tb): the loop ends when count runs    *)
(* out; term_popfirst() returns -1 on an empty buffer, else reads         *)
(* c = buf[start].                                                        *)
(***************************************************************************)
ReadPop ==
  /\ rpc = "pop"
  /\ \/ /\ Len(got) = rcount
        /\ Return
        /\ UNCHANGED rc
     \/ /\ Len(got) < rcount /\ Empty(term)
        /\ Return
        /\ UNCHANGED rc
     \/ /\ Len(got) < rcount /\ ~Empty(term)
        /\ rc' = term.buf[term.start]
        /\ rpc' = "adv"
  /\ UNCHANGED <<term, keys, rcount, got>>

(* tb->start = (tb->start + 1) % TERM_BUFSIZE, re-reading start. *)
ReadAdvance ==
  /\ rpc = "adv"
  /\ term' = [term EXCEPT !.start = (@ + 1) % TERM_BUFSIZE]
  /\ rpc' = "clr"
  /\ UNCHANGED <<keys, rcount, rc, got>>

(***************************************************************************)
(* term.full = 0; a delimiter decrements delims; EOT makes               *)
(* term_popfirst() return -1 and ends the read, anything else is stored   *)
(* into buf and the loop goes on.                                         *)
(***************************************************************************)
ReadClear ==
  /\ rpc = "clr"
  /\ term' = [term EXCEPT !.full = FALSE,
                          !.delims = IF rc \in Delims THEN @ - 1 ELSE @]
  /\ \/ /\ rc = "eot"
        /\ Return
        /\ UNCHANGED got
     \/ /\ rc # "eot"
        /\ got' = Append(got, rc)
        /\ rpc' = "pop"
  /\ UNCHANGED <<keys, rcount, rc>>

TermNext ==
  \/ \E k \in Keys : TermPutch(k)
  \/ \E n \in 1 .. MaxCount : ReadCall(n)
  \/ ReadCheck \/ TaskBlock \/ ReadPop \/ ReadAdvance \/ ReadClear

(* The reading task is scheduled whenever it is runnable; the keyboard  *)
(* is the user and owes nothing.                                         *)
ReaderFairness ==
  /\ WF_termVars(ReadCheck) /\ WF_termVars(TaskBlock)
  /\ WF_termVars(ReadPop) /\ WF_termVars(ReadAdvance) /\ WF_termVars(ReadClear)

TermSpec == Init /\ [][TermNext]_termVars /\ ReaderFairness

-----------------------------------------------------------------------------
(* Type invariant. *)
TermTypeOK ==
  /\ term \in TermBuf
  /\ keys \in 0 .. MaxKeys
  /\ rpc \in {"user", "check", "toblock", "blocked", "pop", "adv", "clr"}
  /\ rcount \in 0 .. MaxCount
  /\ rc \in Stored
  /\ got \in Seq(Stored) /\ Len(got) <= rcount

(* The characters between start and end, as term_popfirst() sees them. *)
Used(t) == IF t.full THEN TERM_BUFSIZE ELSE (t.end - t.start) % TERM_BUFSIZE
Buffered(t) == [k \in 1 .. Used(t) |-> t.buf[(t.start + k - 1) % TERM_BUFSIZE]]

(***************************************************************************)
(* No lost wake-up: the reading task sleeps in task_block() only while    *)
(* delims = 0.  Every path of term_putch() that makes delims non-zero     *)
(* (a delimiter, or term_push() filling the buffer) calls                  *)
(* task_unblock_foreground(), and the test of delims and task_block()     *)
(* are not separated by the ISR when interrupts are off in the syscall.   *)
(***************************************************************************)
NoLostWakeup == rpc = "blocked" => term.delims = 0

(***************************************************************************)
(* A term_read() that is under way while delims is non-zero returns: the  *)
(* ISR cannot leave it asleep, and the pop loop ends within count steps.  *)
(* Needs only that the scheduler runs the task while it is runnable.      *)
(***************************************************************************)
ReadReturns ==
  (rpc \notin {"user"} /\ term.delims # 0) ~> (rpc = "user")

(***************************************************************************)
(* term_push() never overwrites an unread character: when the buffer is   *)
(* full, end has caught up with start and nothing more is stored.         *)
(***************************************************************************)
NoUnreadOverwritten == term.full => term.end = term.start

(***************************************************************************)
(* A delimiter in the buffer reaches the reader: a read under way while a *)
(* '\n' or EOT is buffered returns.                                        *)
(***************************************************************************)
DelimBuffered == \E k \in DOMAIN Buffered(term) : Buffered(term)[k] \in Delims
LineDelivered == (rpc # "user" /\ DelimBuffered) ~> (rpc = "user")

=============================================================================
