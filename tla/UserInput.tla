------------------------------ MODULE UserInput ------------------------------
(***************************************************************************)
(* input_buffer.c: what the user types is read into a buffer that is       *)
(* searched for newlines as a C string; every line is handed to the peer   *)
(* and the rest of the buffer is moved to its front.  The bytes behind cur *)
(* are never cleared: that they are 0 is what keeps strchr from finding    *)
(* old lines again.                                                        *)
(*                                                                         *)
(* The environment: each read returns any text, as long as the buffer then *)
(* holds at most MaxFill characters.  A terminal returns one line of at    *)
(* most 4096 characters; USERBUF_SIZE is 8191.                             *)
(***************************************************************************)
EXTENDS Integers, Sequences

CONSTANTS
  Size,      \* USERBUF_SIZE; the buffer has one byte more
  MaxFill,   \* the most characters the buffer holds after a read
  Wrap,      \* cur is unsigned: it wraps at this number
  Letters,   \* characters that are not a newline
  NL         \* the newline

ASSUME UserInputAssumption ==
  /\ Size \in Nat \ {0} /\ MaxFill \in 1..Size
  /\ Wrap \in Nat /\ Wrap > 2 * Size
  /\ NL \notin Letters /\ NL # 0

NUL == 0
Chars == Letters \cup {NL}
Index == 0..Size

VARIABLES
  buf,    \* userbuf->buf
  cur,    \* userbuf->cur
  pc,     \* "select", "loop" in the loop over lines, "exited" after exit(-1)
  typed   \* history: the characters read whose line has not been handled

inputVars == <<buf, cur, pc, typed>>

InputInit ==   \* create_userbuf
  /\ buf = [i \in Index |-> NUL]
  /\ cur = 0
  /\ pc = "select"
  /\ typed = <<>>

-----------------------------------------------------------------------------
(* strchr(buf, '\n')                                                       *)

IsLineEnd(k) == buf[k] = NL /\ \A j \in 0..(k - 1) : buf[j] \notin {NUL, NL}
HasLine == \E k \in Index : IsLineEnd(k)
LineEnd == CHOOSE k \in Index : IsLineEnd(k)   \* ret - userbuf->buf

\* The first line of typed is gone.
Ends == {i \in DOMAIN typed : typed[i] = NL}
AfterFirstLine ==
  IF Ends = {} THEN typed
  ELSE LET e == CHOOSE i \in Ends : \A j \in Ends : i <= j
       IN  SubSeq(typed, e + 1, Len(typed))

-----------------------------------------------------------------------------
\* The text s is read; the end of file and an error are the empty text.  A buffer
\* that seems full ends the program before the read.
Read(s) ==
  /\ pc = "select"
  /\ IF cur >= Size - 1
     THEN pc' = "exited" /\ UNCHANGED <<buf, cur, typed>>
     ELSE /\ cur + Len(s) <= MaxFill
          /\ buf' = [i \in Index |-> IF i \in cur..(cur + Len(s) - 1) THEN s[i - cur + 1] ELSE buf[i]]
          /\ cur' = cur + Len(s)
          /\ typed' = typed \o s
          /\ pc' = "loop"

\* *ret = '\0', then memmove of USERBUF_SIZE - k bytes from behind the newline.
Shifted_PendingOnly(k) ==   \* mutant: only the characters counted by cur are moved
  [i \in Index |-> IF i < cur - k - 1 THEN buf[i + k + 1] ELSE IF i = k THEN NUL ELSE buf[i]]
Shifted(k) ==
  [i \in Index |-> IF i < Size - k THEN buf[i + k + 1] ELSE IF i = k THEN NUL ELSE buf[i]]

CurAfter_Twice(k) == (cur - k - 2) % Wrap   \* mutant: one character too many is taken off
CurAfter(k) == (cur - k - 1) % Wrap

\* One round of the loop: the line is handed to handle_user_input.
HandleLine ==
  /\ pc = "loop" /\ HasLine
  /\ buf' = Shifted(LineEnd)
  /\ cur' = CurAfter(LineEnd)
  /\ typed' = AfterFirstLine
  /\ UNCHANGED pc

NoMoreLines ==
  /\ pc = "loop" /\ ~HasLine
  /\ pc' = "select"
  /\ UNCHANGED <<buf, cur, typed>>

Texts == UNION {[1..n -> Chars] : n \in 0..MaxFill}

InputNext ==
  \/ \E s \in Texts : Read(s)
  \/ HandleLine \/ NoMoreLines

InputSpec == InputInit /\ [][InputNext]_inputVars

-----------------------------------------------------------------------------
(* Properties                                                              *)

\* Every variable stays in its range, cur below the limit of the reads and the
\* last byte of the buffer '\0', so that strchr stays inside.
InputTypeOK ==
  /\ buf \in [Index -> Chars \cup {NUL}] /\ buf[Size] = NUL
  /\ cur \in 0..MaxFill
  /\ pc \in {"select", "loop", "exited"}
  /\ typed \in Seq(Chars) /\ Len(typed) <= MaxFill

\* Each line that the loop finds is the next one that was typed, whole and
\* unchanged: no line is invented from bytes left over in the buffer, none is
\* joined with another (input_buffer.c:45-51).
LineAsTyped ==
  pc = "loop" /\ HasLine =>
    /\ LineEnd < Len(typed)
    /\ \A i \in 0..LineEnd : typed[i + 1] = buf[i]

\* "buffer full;  line too long!" (input_buffer.c:35) is said of a long line.
ExitOnlyIfTooLong == pc = "exited" => Len(typed) >= Size - 1
=============================================================================
