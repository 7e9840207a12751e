----------------------------- MODULE MCAdapters -----------------------------
(***************************************************************************)
(* Constants of OutputBuffer that a .cfg cannot write, and a program that  *)
(* has an adapter of each kind (include/bitsery/adapter/buffer.h,          *)
(* stream.h).  Adapters of different kinds share nothing, so a behaviour   *)
(* uses one kind: interleaving them would multiply the states and add no   *)
(* behaviour to any.                                                       *)
(***************************************************************************)
EXTENDS InputBuffer, OutputBuffer, StreamAdapters

MCBlocks == { <<1>>, <<2, 2>>, <<1, 2, 1>> }
MCEmpty  == << >>

VARIABLE used  \* the adapters that are used

adaptersVars == <<readerVars, vars, streamVars, used>>

AdaptersInit ==
  /\ used \in {"input buffer", "output buffer", "stream"}
  /\ ReaderInit /\ Init /\ StreamInit
  /\ used # "stream" => bufferSize = Unbuffered /\ \A r \in Rooms : room <= r

AdaptersNext ==
  \/ used = "input buffer" /\ ReaderNext /\ UNCHANGED <<vars, streamVars, used>>
  \/ used = "output buffer" /\ Next /\ UNCHANGED <<readerVars, streamVars, used>>
  \/ used = "stream" /\ StreamNext /\ UNCHANGED <<readerVars, vars, used>>

\* The fairness of StreamAdapters, where a stream is used.
AdaptersFairness ==
  /\ WF_adaptersVars(used = "stream" /\ Return /\ UNCHANGED <<readerVars, vars, used>>)
  /\ WF_adaptersVars(used = "stream" /\ FlushReturned /\ UNCHANGED <<readerVars, vars, used>>)

AdaptersSpec == AdaptersInit /\ [][AdaptersNext]_adaptersVars /\ AdaptersFairness

=============================================================================
