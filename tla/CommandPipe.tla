----------------------------- MODULE CommandPipe -----------------------------
(***************************************************************************)
(* The pipes between baloo_file and the extractor (commandpipe.cpp,        *)
(* extractorprocess.cpp, extractor/app.cpp). A message is a byte that says *)
(* what it is, and for most of them a length and as many bytes; any byte   *)
(* can look like the first of a message. Pipes pass on bytes, not messages.*)
(*                                                                         *)
(* QProcess keeps what it has read until it is asked for, and says so when *)
(* something comes. The extractor reads its input without a buffer of its  *)
(* own: a read waits for the rest of a message.                            *)
(***************************************************************************)
EXTENDS Naturals, Sequences, SequencesExt

CONSTANTS
  Commands,      \* messages to the extractor
  Statuses,      \* messages from it
  MaxMessages,   \* bound: messages each way
  MaxRestarts    \* bound: ends of a process

VARIABLES
  commandPipe,   \* bytes on their way
  statusPipe,
  buffer,        \* bytes that QProcess has read
  input,         \* bytes of an incomplete message, put back by rollbackTransaction()
  worker,        \* "runs", "dead", "quit"
  closed,        \* baloo_file has closed its end
  commanded,     \* messages sent to this process, and those it has read
  obeyed,
  reported,      \* messages sent by this process, and those signalled
  signalled,
  restarts

pipes   == <<commandPipe, statusPipe, buffer, input>>
history == <<commanded, obeyed, reported, signalled>>
vars    == <<pipes, worker, closed, history, restarts>>

-----------------------------------------------------------------------------
(* QDataStream. *)

\* How long the message at the start of bytes is, or 0 if it is not all there
MessageLength(bytes, alone) ==
  CASE bytes = <<>>                                    -> 0
    [] bytes # <<>> /\ bytes[1] \in alone              -> 1
    [] Len(bytes) >= 2 /\ Len(bytes) >= 2 + bytes[2]   -> 2 + bytes[2]
    [] OTHER                                           -> 0

StatusAlone  == {"B"}         \* BatchFinished
CommandAlone == {"S", "F"}    \* IndexSlow, IndexFast

Message(bytes, alone) == SubSeq(bytes, 1, MessageLength(bytes, alone))
Rest(bytes, alone)    == SubSeq(bytes, MessageLength(bytes, alone) + 1, Len(bytes))

\* All the messages that are there
RECURSIVE Messages(_, _)
Messages(bytes, alone) ==
  IF MessageLength(bytes, alone) = 0 THEN <<>>
  ELSE <<Message(bytes, alone)>> \o Messages(Rest(bytes, alone), alone)

RECURSIVE Remainder(_, _)
Remainder(bytes, alone) ==
  IF MessageLength(bytes, alone) = 0 THEN bytes ELSE Remainder(Rest(bytes, alone), alone)

-----------------------------------------------------------------------------
(* baloo_file: ControllerPipe, ExtractorProcess *)

\* processIds(), setIndexSpeed()
command(m) ==
  /\ ~closed /\ worker = "runs" /\ Len(commanded) < MaxMessages
  /\ commandPipe' = commandPipe \o m /\ commanded' = Append(commanded, m)
  /\ UNCHANGED <<statusPipe, buffer, input, worker, closed, obeyed, reported, signalled, restarts>>

\* Mutant: one message is read each time that something comes.
processStatusData_One(bytes) ==
  /\ signalled' = IF MessageLength(bytes, StatusAlone) = 0 THEN signalled
                  ELSE Append(signalled, Message(bytes, StatusAlone))
  /\ buffer' = Rest(bytes, StatusAlone)

\* What is not all there is left for the next time.
processStatusData(bytes) ==
  /\ signalled' = signalled \o Messages(bytes, StatusAlone)
  /\ buffer' = Remainder(bytes, StatusAlone)

\* readyRead, with any number of bytes
readyRead(n) ==
  /\ n \in 1..Len(statusPipe)
  /\ processStatusData(buffer \o SubSeq(statusPipe, 1, n))
  /\ statusPipe' = SubSeq(statusPipe, n + 1, Len(statusPipe))
  /\ UNCHANGED <<commandPipe, input, worker, closed, commanded, obeyed, reported, restarts>>

\* QProcess has read all when it says that the process ended; it forgets that
\* when it is started again.
start ==
  /\ worker = "dead" /\ statusPipe = <<>> /\ ~closed
  /\ worker' = "runs" /\ buffer' = <<>> /\ commandPipe' = <<>> /\ input' = <<>>
  /\ commanded' = <<>> /\ obeyed' = <<>> /\ reported' = <<>> /\ signalled' = <<>>
  /\ UNCHANGED <<statusPipe, closed, restarts>>

\* ~ExtractorProcess() closes the channel; a baloo_file that is killed may do so
\* within a message.
close ==
  /\ ~closed /\ closed' = TRUE
  /\ UNCHANGED <<pipes, worker, history, restarts>>

killed ==
  /\ ~closed /\ closed' = TRUE /\ restarts < MaxRestarts /\ restarts' = restarts + 1
  /\ \E n \in 0..Len(commandPipe) : commandPipe' = SubSeq(commandPipe, 1, n)
  /\ UNCHANGED <<statusPipe, buffer, input, worker, history>>

-----------------------------------------------------------------------------
(* The extractor: WorkerPipe, App *)

\* urlStarted(), urlProcessed(), batchFinished()
report(m) ==
  /\ worker = "runs" /\ ~closed /\ Len(reported) < MaxMessages
  /\ statusPipe' = statusPipe \o m /\ reported' = Append(reported, m)
  /\ UNCHANGED <<commandPipe, buffer, input, worker, closed, commanded, obeyed, signalled, restarts>>

Readable == input \o commandPipe

\* The socket notifier is activated. Without all of a message the read waits,
\* unless there is no more to come.
processIdData ==
  /\ worker = "runs" /\ MessageLength(Readable, CommandAlone) > 0
  /\ obeyed' = obeyed \o Messages(Readable, CommandAlone)
  /\ input' = Remainder(Readable, CommandAlone) /\ commandPipe' = <<>>
  /\ UNCHANGED <<statusPipe, buffer, worker, closed, commanded, reported, signalled, restarts>>

\* inputEnd() is emitted if there is not even the first byte. Input that ends
\* within a message is read, and put back, again and again.
inputEnd ==
  /\ worker = "runs" /\ closed /\ Readable = <<>> /\ worker' = "quit"
  /\ UNCHANGED <<pipes, closed, history, restarts>>

\* What it was writing may be cut anywhere.
crash ==
  /\ worker = "runs" /\ ~closed /\ worker' = "dead" /\ restarts < MaxRestarts /\ restarts' = restarts + 1
  /\ \E n \in 0..Len(statusPipe) : statusPipe' = SubSeq(statusPipe, 1, n)
  /\ UNCHANGED <<commandPipe, buffer, input, closed, history>>

Init ==
  /\ commandPipe = <<>> /\ statusPipe = <<>> /\ buffer = <<>> /\ input = <<>>
  /\ worker = "runs" /\ closed = FALSE /\ restarts = 0
  /\ commanded = <<>> /\ obeyed = <<>> /\ reported = <<>> /\ signalled = <<>>

Next ==
  \/ \E m \in Commands : command(m)
  \/ \E m \in Statuses : report(m)
  \/ \E n \in 1..Len(statusPipe) : readyRead(n)
  \/ start \/ close \/ killed \/ processIdData \/ inputEnd \/ crash

Spec == Init /\ [][Next]_vars

-----------------------------------------------------------------------------

\* What is signalled and obeyed is what was sent by and to the present process,
\* in its order, wherever the pipe cuts messages and whatever a process that
\* crashed left behind.
InOrder == IsPrefix(signalled, reported) /\ IsPrefix(obeyed, commanded)

\* No message that has come waits for the next one to come: the end of a batch is
\* heard of although the extractor says nothing after it.
NothingWaits == worker = "runs" /\ statusPipe = <<>> => signalled = reported

=============================================================================
