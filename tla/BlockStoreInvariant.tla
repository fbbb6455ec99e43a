------------------------- MODULE BlockStoreInvariant -------------------------
(***************************************************************************)
(* Why BlockStore works, as one inductive invariant: what a request at each*)
(* program point has in hand, which stripes it holds there, and what those *)
(* stripes keep true of the records and files it has already looked at.    *)
(***************************************************************************)
EXTENDS BlockStore

Writing == {"stream", "lock", "land"}

\* A request whose counted references are on their way into an object record.
Building == Writing \cup {"publish", "acquire", "bump"}

\* A request that will write an object record knows its key.
KeyKnown == \A p \in Proc : pc[p] \in Building => key[p] \in Key

\* What is in hand at each program point.
Shape ==
    \A p \in Proc :
        /\ pc[p] = "idle" => own[p] = {} /\ len[p] = 0
        /\ pc[p] \in {"idle", "publish", "release", "decrement", "unlink"} => batch[p] = {}
        /\ pc[p] \notin Writing \cup {"unlink"} => depth[p] = Bare
        /\ pc[p] \in Writing =>
              \A b \in Block : depth[p][b] # NoDepth => b \in BlocksOf(batch[p])
        /\ pc[p] = "land" => todo[p] \subseteq BlocksOf(batch[p])

\* A block list has one block per position.
IsList(refs) == \A x, y \in refs : x[1] = y[1] => x = y

Lists ==
    /\ \A k \in Key : IsList(obj[k])
    /\ \A p \in Proc : IsList(own[p] \cup batch[p])
    /\ \A p \in Proc : pc[p] \in Writing => \A x \in own[p] \cup batch[p] : x[1] <= len[p]

\* Every _BLOCKS mutation that can take liveness away, and every landing, is made
\* by the holder of the block's stripe; an unlink follows its decrement under the
\* same hold, so the record is still gone.
Locks ==
    \A p \in Proc :
        /\ pc[p] = "land" => \A b \in BlocksOf(batch[p]) : stripe[StripeOf[b]] = p
        /\ pc[p] = "decrement" =>
              \A x \in own[p] : IsFirst(x, own[p]) => stripe[StripeOf[x[2]]] = p
        /\ pc[p] = "unlink" =>
              \A b \in Block : depth[p][b] # NoDepth => stripe[StripeOf[b]] = p /\ rec[b].rc = 0

\* A block the closing batch has dealt with has a live record or a file in place.
Landed ==
    \A p \in Proc : pc[p] = "land" =>
        \A b \in BlocksOf(batch[p]) \ todo[p] : HasLiveRecord(rec[b]) \/ depth[p][b] \in files[b]

\* No reference on its way into an object is to a degraded block.
Sound == \A p \in Proc : pc[p] \in Building => \A b \in BlocksOf(own[p]) : ~rec[b].degraded

\* The inductive invariant: what is in hand, the lists, the stripes, the landed
\* files, and the two promises they support.
Inductive ==
    /\ TypeOK /\ KeyKnown /\ Shape /\ Lists /\ Locks /\ Landed /\ Sound
    /\ FileFirst /\ NeverUndercounts
=============================================================================
