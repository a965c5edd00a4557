------------------------------ MODULE Connection ------------------------------
(* The control channel: the character device through which a tool in user      *)
(* space sends requests to the firmware, and the thread that answers them,     *)
(* acamera_connection.c over system_chardev.c.                                 *)
(*                                                                             *)
(*   client   the process that has the device open, one at a time; it writes   *)
(*            one request after the other, in pieces, reads what there is and  *)
(*            may close at any time;                                           *)
(*   thread   connection_thread.                                               *)
(*                                                                             *)
(* Every access to the two fifos is under fops_lock, and what a turn of the    *)
(* thread's loop does after it is the thread's own: a turn is one step.  A     *)
(* packet is counted in words; a word is known by the request and the place it *)
(* has there, since nothing else tells a header from data.  What a request     *)
(* reads and writes is left out, how long its answer is is not.  A word that   *)
(* is taken for a size is the size of some request.                            *)
EXTENDS Integers, Sequences

CONSTANTS Request,       \* what clients ask: records of type, size and n, the size asked for
          Header, Args,  \* words of a header, of the arguments behind it
          Capacity,      \* words of con.buffer, CONNECTION_BUFFER_SIZE
          Fifo,          \* words of a fifo, SYSTEM_CHARDEV_FIFO_SIZE
          MaxRequests    \* bound: requests in all

Exact == {"RegRead", "LUTRead", "BUFRead", "APIRead", "APIWrite"}
Longer == {"RegWrite", "RegMaskWrite", "LUTWrite", "BUFWrite"}
Type == Exact \cup Longer \cup {"unknown"}

ASSUME ConnectionAssumption ==
  /\ Request \subseteq [type : Type, size : Nat, n : Nat]
  /\ \A m \in Request : m.size >= Header
  /\ Header \in Nat \ {0} /\ Args \in Nat \ {0} /\ Fifo \in Nat \ {0} /\ MaxRequests \in Nat
  /\ Capacity \in Nat /\ Capacity > Header + Args

VARIABLES
  open,                  \* dev_opened
  asked, written,        \* the requests so far; words of the last one written
  in, out,               \* isp_kfifo_in, isp_kfifo_out
  state, buf,            \* con.state; the first rx_buffer_inx words of con.buffer
  size, skipped,         \* rx_buffer_size; rx_buffer_inx while skipping
  reply, tx,             \* the answer in con.buffer; tx_buffer_inx
  \* History, for the properties only.
  first,                 \* requests asked before the device was opened last
  handled,               \* the answers made since
  due,                   \* the words of them that have not been read
  astray                 \* the thread may take data for a header

client == <<open, asked, written, first>>
con == <<state, buf, size, skipped, reply, tx>>
connection == <<client, in, out, con, handled, due, astray>>

Smaller(m, n) == IF m < n THEN m ELSE n
Drop(s, n) == SubSeq(s, n + 1, Len(s))
Words(id, from, to) == [k \in 1..to - from |-> [req |-> id, pos |-> from + k]]
-----------------------------------------------------------------------------
(* The client.                                                                 *)

Whole == IF asked = <<>> THEN TRUE ELSE written = asked[Len(asked)].size

FopsOpen ==
  /\ ~open /\ open' = TRUE
  /\ UNCHANGED <<asked, written, first, in, out, con, handled, due, astray>>

Ask(m) ==
  /\ open /\ Whole /\ Len(asked) < MaxRequests
  /\ asked' = Append(asked, m) /\ written' = 0
  /\ UNCHANGED <<open, first, in, out, con, handled, due, astray>>

\* As many words as there is room for are copied at once.
Write(k) ==
  /\ open /\ ~Whole
  /\ k <= asked[Len(asked)].size - written /\ Len(in) + k <= Fifo
  /\ in' = in \o Words(Len(asked), written, written + k)
  /\ written' = written + k
  /\ UNCHANGED <<open, asked, first, out, con, handled, due, astray>>

Read(k) ==
  /\ open /\ k <= Len(out)
  /\ out' = Drop(out, k)
  /\ due' = IF astray THEN due ELSE Drop(due, k)
  /\ UNCHANGED <<client, in, con, handled, astray>>

AtRest == state = "idle" /\ buf = <<>>

\* The fifos are reset.  What the thread has in its buffer is not.
FopsRelease ==
  /\ open /\ open' = FALSE
  /\ in' = <<>> /\ out' = <<>>
  /\ written' = IF asked = <<>> THEN 0 ELSE asked[Len(asked)].size
  /\ first' = Len(asked) /\ handled' = <<>> /\ due' = <<>>
  /\ astray' = ~AtRest
  /\ UNCHANGED <<asked, con>>

Reading == \E k \in 1..Fifo : Read(k)
Client ==
  \/ FopsOpen \/ (\E m \in Request : Ask(m)) \/ (\E k \in 1..Fifo : Write(k))
  \/ Reading \/ FopsRelease
-----------------------------------------------------------------------------
(* process_request: the length of the answer.                                  *)

\* The wrong length for its type, or no type at all.
Malformed(m) ==
  \/ m.type = "unknown"
  \/ m.type \in Exact /\ m.size # Header + Args
  \/ m.type \in Longer /\ m.size < Header + Args

Reads == {"RegRead", "LUTRead", "BUFRead"}

\* Mutant of Refused: the status word is forgotten.
RefusedLate(m) ==
  \/ m.type \in Reads /\ m.n > Capacity - Header
  \/ m.type \in Longer /\ (IF m.type = "RegMaskWrite" THEN 2 * m.n ELSE m.n) > m.size - Header - Args

\* More is asked for than the buffer or the packet holds.
Refused(m) ==
  \/ m.type \in Reads /\ m.n > Capacity - Header - 1
  \/ m.type \in Longer /\ (IF m.type = "RegMaskWrite" THEN 2 * m.n ELSE m.n) > m.size - Header - Args

\* Addresses that are not aligned, calibrations that are not there.
MayFail(m) == m.type \in {"LUTRead", "BUFRead"}

Answer(m) ==
  IF Malformed(m) THEN {Header}
  ELSE IF m.type \in {"APIRead", "APIWrite"} THEN {Header + 2}
  ELSE (IF Refused(m) \/ MayFail(m) \/ m.type \in Longer THEN {Header + 1} ELSE {})
       \cup (IF m.type \in Reads /\ ~Refused(m) THEN {Header + 1 + m.n} ELSE {})
-----------------------------------------------------------------------------
(* acamera_connection_process.                                                 *)

Aligned == \A i \in 1..Header : buf'[i].pos = i /\ buf'[i].req = buf'[1].req

\* What the header in the buffer is taken for.
Meaning == IF Aligned THEN {asked[buf'[1].req]} ELSE Request
Id == buf'[Header].req

Take(k) == in' = Drop(in, k) /\ buf' = buf \o SubSeq(in, 1, k)

\* The answer is made in the same buffer, under the request's id.
Reply(length) ==
  /\ reply' = [req |-> Id, size |-> length] /\ tx' = 0
  /\ state' = "tx"
  /\ handled' = IF astray THEN handled ELSE Append(handled, reply')
  /\ due' = IF astray THEN due ELSE due \o Words(Id, 0, length)

\* STATE_IDLE.  A packet that is too long is to be skipped, and counted from
\* nothing although its header has been read.
GetHeader ==
  /\ state = "idle"
  /\ Take(Smaller(Len(in), Header - Len(buf)))
  /\ IF Len(buf') < Header THEN UNCHANGED <<state, size, skipped, astray>>
     ELSE /\ size' \in {m.size : m \in Meaning}
          /\ state' = IF size' > Capacity THEN "skip" ELSE "rx"
          /\ skipped' = 0
          /\ astray' = (astray \/ size' > Capacity)
  /\ UNCHANGED <<client, out, reply, tx, handled, due>>

\* STATE_SKIP_DATA.
Skip ==
  /\ state = "skip"
  /\ LET k == Smaller(Len(in), Smaller(Capacity - Header, size - skipped))
     IN  /\ in' = Drop(in, k) /\ skipped' = skipped + k
         /\ buf' = buf
         /\ IF skipped' < size THEN UNCHANGED <<state, reply, tx, handled, due>> ELSE Reply(Header)
  /\ UNCHANGED <<client, out, size, astray>>

\* Mutant of GetData: a request without data waits for some.
GetDataWaits ==
  /\ state = "rx" /\ in # <<>>
  /\ Take(Smaller(Len(in), size - Len(buf)))
  /\ IF Len(buf') < size THEN UNCHANGED <<state, reply, tx, handled, due>>
     ELSE \E m \in Meaning, length \in 0..2 * Capacity :
            m.size = size /\ length \in Answer(m) /\ Reply(length)
  /\ UNCHANGED <<client, out, size, skipped, astray>>

\* STATE_RX_DATA, and process_request once the packet is there.
GetData ==
  /\ state = "rx"
  /\ Take(Smaller(Len(in), size - Len(buf)))
  /\ IF Len(buf') < size THEN UNCHANGED <<state, reply, tx, handled, due>>
     ELSE \E m \in Meaning, length \in 0..2 * Capacity :
            m.size = size /\ length \in Answer(m) /\ Reply(length)
  /\ UNCHANGED <<client, out, size, skipped, astray>>

\* Mutant of Send: what does not fit is taken to be sent.
SendAll ==
  /\ state = "tx"
  /\ out' = SubSeq(out \o Words(reply.req, tx, reply.size), 1, Smaller(Fifo, Len(out) + reply.size - tx))
  /\ tx' = 0 /\ state' = "idle" /\ buf' = <<>>
  /\ UNCHANGED <<client, in, size, skipped, reply, handled, due, astray>>

\* STATE_TX_PACKET, and reset_connection once the answer is sent.
Send ==
  /\ state = "tx"
  /\ LET k == Smaller(reply.size - tx, Fifo - Len(out))
     IN  /\ out' = out \o Words(reply.req, tx, tx + k)
         /\ IF tx + k < reply.size
              THEN tx' = tx + k /\ UNCHANGED <<state, buf>>
              ELSE tx' = 0 /\ state' = "idle" /\ buf' = <<>>
  /\ UNCHANGED <<client, in, size, skipped, reply, handled, due, astray>>

Thread == GetHeader \/ Skip \/ GetData \/ Send
-----------------------------------------------------------------------------
ConnectionInit ==
  /\ open = FALSE /\ asked = <<>> /\ written = 0 /\ first = 0
  /\ in = <<>> /\ out = <<>>
  /\ state = "idle" /\ buf = <<>> /\ size = 0 /\ skipped = 0
  /\ reply = [req |-> 0, size |-> 0] /\ tx = 0
  /\ handled = <<>> /\ due = <<>> /\ astray = FALSE

ConnectionNext == Client \/ Thread
ConnectionSpec == ConnectionInit /\ [][ConnectionNext]_connection

\* The thread runs, and a client reads what there is as long as it has the
\* device open.
FairSpec == ConnectionSpec /\ WF_connection(Thread) /\ WF_connection(Reading)
-----------------------------------------------------------------------------
\* Types, with the bounds of the buffer: neither a packet, whatever is taken
\* for one, nor an answer to it is longer than con.buffer (acamera_connection.c
\* checks the former once, the latter for each type).
BuffersBounded ==
  /\ open \in BOOLEAN /\ astray \in BOOLEAN
  /\ Len(asked) <= MaxRequests /\ first \in 0..Len(asked)
  /\ Len(in) <= Fifo /\ Len(out) <= Fifo
  /\ state \in {"idle", "rx", "skip", "tx"}
  /\ Len(buf) <= Capacity /\ reply.size <= Capacity /\ tx \in 0..reply.size
  /\ state = "skip" => skipped < size

Unsent == IF state = "tx" THEN Words(reply.req, tx, reply.size) ELSE <<>>

\* Every request of a session is answered once and in order, whatever the
\* pieces in which it is written, taken, sent and read: what the thread has in
\* its buffer are the first words of the next request, and what is on its way
\* to the client is what is missing of the answers.  Two things lead the thread
\* astray: a close in the middle of a request or an answer, and a request that
\* is too long; a close that finds the thread at rest sets it right.
AnsweredInOrder ==
  ~astray =>
    /\ \A i \in DOMAIN handled : handled[i].req = first + i
    /\ state \in {"idle", "rx"} =>
         buf = Words(first + Len(handled) + 1, 0, Len(buf))
    /\ out \o Unsent = due

\* A request written completely is answered, however small the fifos are, and
\* its answer read, unless the client closes or the thread is astray.
Answered ==
  \A i \in 1..MaxRequests :
    (open /\ first < i /\ (i < Len(asked) \/ (i = Len(asked) /\ Whole)))
      ~> \/ ~open \/ astray \/ first >= i
         \/ Len(handled) >= i - first /\ due = <<>>
=============================================================================
