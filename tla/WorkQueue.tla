------------------------------ MODULE WorkQueue ------------------------------
(***************************************************************************)
(* The two Redis lists every queue of the worker is made of                *)
(* (services/worker/npd_worker/main.py): ids are pushed on the right end   *)
(* of the queue, BRPOPLPUSH moves the id at the right end to the left end  *)
(* of a processing list, LREM takes it off when the attempt is over, and   *)
(* a starting worker rebuilds the queue in one MULTI from the processing   *)
(* list and from the rows the database calls unfinished.                   *)
(*                                                                         *)
(* Renders, previews, media resolutions, analytics synchronisations and    *)
(* webhook deliveries use these operators; each module has its own rows.   *)
(***************************************************************************)
EXTENDS Naturals, Sequences, SequencesExt

EmptyQueue == [queue |-> <<>>, processing |-> <<>>]

Pushed(q, id) == [q EXCEPT !.queue = Append(@, id)]

\* The id pushed last is the next to be claimed.
NextId(q) == Last(q.queue)

Claimed(q) == [queue |-> Front(q.queue),
               processing |-> <<NextId(q)>> \o q.processing]

\* LREM: the list s without the ids in T.
Without(s, T) ==
    LET kept[i \in 0 .. Len(s)] ==
          IF i = 0 THEN <<>>
          ELSE IF s[i] \in T THEN kept[i - 1] ELSE Append(kept[i - 1], s[i])
    IN  kept[Len(s)]

Released(q, id) == [q EXCEPT !.processing = Without(@, {id})]

\* The ids a starting worker reads: those in process, oldest claim last, and
\* the unfinished rows, in some order, each once.
Recoverable(q, unfinished) ==
    {q.processing \o rest : rest \in SetToSeqs(unfinished \ ToSet(q.processing))}

\* The MULTI: the processing list is dropped and each id is moved to the end.
\* (Mutants: the ids that were in process are put back, the rows are not read;
\* the list is pushed as if it were one id.)
RequeuedInflight(q, ids) ==
    [queue |-> q.queue \o q.processing, processing |-> <<>>]
Requeued(q, ids) ==
    [queue |-> Without(q.queue, ToSet(ids)) \o ids,
     processing |-> <<>>]

Queued(q) == ToSet(q.queue)
=============================================================================
