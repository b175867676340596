---------------------------- MODULE OutputBuffers ----------------------------
(***************************************************************************)
(* The output of one command on its way to the client: the reader thread   *)
(* and the rolling buffer (append_stdout, _trim_buffer), the cursor of the *)
(* polling tools (snapshot_since_cursor, truncate_text_tail) and the pages *)
(* of read_output (coding_tools_mcp/processes.py, textutils.py,            *)
(* server.py).  Stdout and stderr are alike and independent; this is one   *)
(* of them.                                                                *)
(*                                                                         *)
(* Three coordinates meet here: positions in the stream, positions in the  *)
(* trimmed buffer, and the cursor.  A byte is its position in the stream,  *)
(* so that the model can tell which ones a client received.  What counts   *)
(* about its value is whether it ends a line; characters are one byte.     *)
(***************************************************************************)
EXTENDS Integers, Sequences, FiniteSets

CONSTANTS
  MaxBytes,     \* bound on the output of the command
  BufferLimit,  \* SESSION_BUFFER_BYTES
  PollBytes,    \* max_output_bytes
  PollLines,    \* DEFAULT_MAX_LINES
  PageLimits    \* the limits of read_output that clients use

ASSUME OutputAssumption ==
  /\ MaxBytes \in Nat /\ PollLines \in Nat \ {0}
  /\ BufferLimit \in Nat \ {0} /\ PollBytes \in Nat \ {0}
  /\ PageLimits \subseteq 1..BufferLimit

VARIABLES
  written,  \* what the command wrote: newlines and other bytes
  ended,    \* the command has exited
  buf,      \* the retained bytes
  start,    \* stdout_start_offset
  total,    \* stdout_total_bytes
  dropped,  \* stdout_dropped_bytes
  cursor,   \* stdout_cursor
  polled,   \* what polls did with each byte before the cursor
  reply,    \* the last poll
  page      \* a client that follows next_offset from 0

outputVars == <<written, ended, buf, start, total, dropped, cursor, polled, reply, page>>

AtLeast(a, b) == IF a > b THEN a ELSE b
AtMost(a, b) == IF a < b THEN a ELSE b
From(s, k) == SubSeq(s, k, Len(s))
BytesOf(s) == {s[k] : k \in DOMAIN s}

OutputInit ==
  /\ written = <<>> /\ ended = FALSE
  /\ buf = <<>> /\ start = 0 /\ total = 0 /\ dropped = 0
  /\ cursor = 0
  /\ polled = [shown |-> {}, cut |-> {}, omitted |-> {}]
  /\ reply = [content |-> <<>>, truncated |-> FALSE, since |-> 0]
  /\ page = [next |-> 0, read |-> {}, omitted |-> 0, done |-> FALSE]

-----------------------------------------------------------------------------
(* The command and the reader thread *)

Write(kind) ==
  /\ ~ended /\ Len(written) < MaxBytes
  /\ written' = Append(written, kind)
  /\ UNCHANGED <<ended, buf, start, total, dropped, cursor, polled, reply, page>>

Exit ==
  /\ ~ended /\ ended' = TRUE
  /\ UNCHANGED <<written, buf, start, total, dropped, cursor, polled, reply, page>>

(* Mutant: the offset of the first trim is kept. *)
StartOnce(overflow, after) == IF overflow > 0 /\ start = 0 THEN overflow ELSE start

(* _trim_buffer: the offset of the first byte that is left *)
StartAfter(overflow, after) == IF overflow > 0 THEN after - BufferLimit ELSE start

(* append_stdout with a chunk of n bytes; the pipe keeps what is written   *)
(* until then, after the exit of the command as well.                      *)
AppendOutput(n) ==
  LET all      == buf \o [k \in 1..n |-> total + k - 1]
      overflow == Len(all) - BufferLimit
  IN
  /\ total + n <= Len(written)
  /\ buf' = From(all, AtLeast(overflow, 0) + 1)
  /\ total' = total + n
  /\ start' = StartAfter(overflow, total + n)
  /\ dropped' = dropped + AtLeast(overflow, 0)
  /\ UNCHANGED <<written, ended, cursor, polled, reply, page>>

-----------------------------------------------------------------------------
(* Polling *)

EndsLine(byte) == written[byte + 1] = "newline"

(* truncate_text_tail: all of it when it fits; else the last whole lines   *)
(* that fit, without the newline at the end, or the end of the last line.  *)
LineCount(s) == 1 + Cardinality({k \in DOMAIN s : EndsLine(s[k])})
Fits(s) == Len(s) <= PollBytes /\ LineCount(s) <= PollLines

TruncateTail(s) ==
  LET text == IF s # <<>> /\ EndsLine(s[Len(s)]) THEN SubSeq(s, 1, Len(s) - 1) ELSE s
      whole == {k \in 1..Len(text) + 1 :
                  (k = 1 \/ EndsLine(text[k - 1])) /\ Fits(From(text, k))}
  IN  IF Fits(s) THEN s
      ELSE IF whole # {} THEN From(text, CHOOSE k \in whole : \A j \in whole : k <= j)
      ELSE From(text, Len(text) - PollBytes + 1)

(* snapshot_since_cursor, of write_stdin, kill_session and exec_command *)
Poll ==
  LET omitted == AtLeast(0, start - cursor)
      data    == From(buf, AtLeast(0, cursor - start) + 1)
      content == TruncateTail(data)
  IN
  /\ cursor' = total
  /\ reply' = [content |-> content, truncated |-> content # data \/ omitted > 0,
               since |-> cursor]
  /\ polled' = [shown   |-> polled.shown \cup BytesOf(content),
                cut     |-> polled.cut \cup (BytesOf(data) \ BytesOf(content)),
                omitted |-> polled.omitted \cup cursor..cursor + omitted - 1]
  /\ UNCHANGED <<written, ended, buf, start, total, dropped, page>>

-----------------------------------------------------------------------------
(* read_output: the offset of a page *)
PageOffset(requested) == AtLeast(requested, start)

ReadPage(limit) ==
  LET offset == PageOffset(page.next)
      from   == AtLeast(0, offset - start)
      chunk  == SubSeq(buf, from + 1, AtMost(from + limit, Len(buf)))
      next   == offset + Len(chunk)
  IN
  /\ ~page.done
  /\ page' = [next    |-> next,
              read    |-> page.read \cup BytesOf(chunk),
              omitted |-> page.omitted + AtLeast(0, start - page.next),
              done    |-> ended /\ next >= total /\ total = Len(written)]
  /\ UNCHANGED <<written, ended, buf, start, total, dropped, cursor, polled, reply>>

OutputNext ==
  \/ \E kind \in {"newline", "byte"} : Write(kind)
  \/ Exit
  \/ \E n \in 1..MaxBytes : AppendOutput(n)
  \/ Poll
  \/ \E limit \in PageLimits : ReadPage(limit)

OutputSpec == OutputInit /\ [][OutputNext]_outputVars

-----------------------------------------------------------------------------
(* Polls show every byte of the stream once and in one piece, or count it  *)
(* as omitted, or cut it and say so; a reply respects its limits and ends  *)
(* with the latest output, but for a newline.                              *)
PollsAccount ==
  /\ polled.shown \cup polled.cut \cup polled.omitted = 0..cursor - 1
  /\ polled.shown \cap (polled.cut \cup polled.omitted) = {}
  /\ polled.cut \cap polled.omitted = {}
  /\ ~reply.truncated => Len(reply.content) = cursor - reply.since
  /\ Len(reply.content) <= PollBytes
  /\ \A k \in DOMAIN reply.content : reply.content[k] = reply.content[1] + k - 1
  /\ cursor > reply.since =>
       IF reply.content = <<>> THEN EndsLine(cursor - 1)
       ELSE \/ reply.content[Len(reply.content)] = cursor - 1
            \/ EndsLine(cursor - 1) /\ reply.content[Len(reply.content)] = cursor - 2

(* The buffer is the end of the stream, and a client that follows          *)
(* next_offset reads every byte before it or is told how many were         *)
(* dropped.                                                                *)
PagesAccount ==
  /\ Len(buf) <= BufferLimit
  /\ dropped + Len(buf) = total
  /\ \A k \in DOMAIN buf : buf[k] = start + k - 1
  /\ page.read \subseteq 0..page.next - 1
  /\ Cardinality(page.read) + page.omitted = page.next
  /\ page.done => page.next = Len(written)

(* No byte of output is lost or repeated without the client being told, by *)
(* either of the two ways to read it.                                      *)
OutputAccounted == PollsAccount /\ PagesAccount
=============================================================================
