---------------------------- MODULE ParallelSum -----------------------------
(***************************************************************************)
(* The sum gadgets of src/flp/gadgets.rs on polynomials: the inner gadget  *)
(* is applied to every chunk of the input and the outputs are added, by    *)
(* one thread or by the threads of a pool.  An output buffer is written in *)
(* place, and what a gadget leaves of its old contents stays.              *)
(*                                                                         *)
(* The pool splits the chunks into segments as it sees fit; a thread folds *)
(* a segment with a state of its own, and neighbouring results are reduced *)
(* in any order.                                                           *)
(***************************************************************************)
EXTENDS Flp

\* A call of call_poly: the gadget, the polynomials, the buffer for the output.
Job(g, inp, buffer) == [gadget |-> g, inp |-> inp, outp |-> buffer]

\* ParallelSumFoldState: a copy of the inner gadget, an output buffer, and a running sum.
FoldState(n) == [partial_output |-> null_vector(n), partial_sum |-> null_vector(n)]

add_to_sum(state, partial) ==
    [partial_output |-> partial, partial_sum |-> merge_vector(state.partial_sum, partial)]
fold_step(j, state, c) ==
    add_to_sum(state, call_poly(j.gadget, state.partial_output, chunk(j.gadget, j.inp, c)))

-----------------------------------------------------------------------------
VARIABLES job,       \* the call
          segments,  \* the segments of its chunks, in order
          outp       \* the output parameter
vars == <<job, segments, outp>>

\* A segment waits, is being folded (next is the chunk to come), or has a sum.
Segment(lo, hi) == [lo |-> lo, hi |-> hi, status |-> "waiting"]

\* One of the given calls is made.
Init(jobs) ==
    /\ job \in jobs
    /\ segments = <<Segment(1, job.gadget.chunks)>>
    /\ outp = job.outp

\* An idle thread takes a part of what another one has not started.
Split(i, at) ==
    LET s == segments[i]
    IN  /\ s.status = "waiting" /\ at \in s.lo..s.hi - 1
        /\ segments' = SubSeq(segments, 1, i - 1) \o <<Segment(s.lo, at), Segment(at + 1, s.hi)>>
                         \o SubSeq(segments, i + 1, Len(segments))
        /\ UNCHANGED <<job, outp>>

Start(i) ==
    LET s == segments[i]
    IN  /\ s.status = "waiting"
        /\ segments' = [segments EXCEPT ![i] =
                [lo |-> s.lo, hi |-> s.hi, status |-> "folding", next |-> s.lo,
                 state |-> FoldState(Len(job.outp))]]
        /\ UNCHANGED <<job, outp>>

Fold(i) ==
    LET s == segments[i]
    IN  /\ s.status = "folding" /\ s.next <= s.hi
        /\ segments' = [segments EXCEPT ![i].next = @ + 1,
                            ![i].state = fold_step(job, s.state, s.next)]
        /\ UNCHANGED <<job, outp>>

\* Everything but the partial sum is discarded; the reduction starts from zeros.
Complete(i) ==
    LET s == segments[i]
    IN  /\ s.status = "folding" /\ s.next > s.hi
        /\ segments' = [segments EXCEPT ![i] =
                [lo |-> s.lo, hi |-> s.hi, status |-> "summed",
                 sum |-> merge_vector(null_vector(Len(job.outp)), s.state.partial_sum)]]
        /\ UNCHANGED <<job, outp>>

Reduce(i) ==
    LET x == segments[i]
        y == segments[i + 1]
    IN  /\ x.status = "summed" /\ y.status = "summed"
        /\ segments' = SubSeq(segments, 1, i - 1)
                         \o <<[lo |-> x.lo, hi |-> y.hi, status |-> "summed",
                               sum |-> merge_vector(x.sum, y.sum)]>>
                         \o SubSeq(segments, i + 2, Len(segments))
        /\ UNCHANGED <<job, outp>>

Finish ==
    /\ Len(segments) = 1 /\ segments[1].status = "summed"
    /\ outp' = segments[1].sum
    /\ segments' = <<>>
    /\ UNCHANGED job

Next ==
    \/ \E i \in DOMAIN segments :
          \/ \E at \in 1..job.gadget.chunks : Split(i, at)
          \/ Start(i) \/ Fold(i) \/ Complete(i)
    \/ \E i \in 1..Len(segments) - 1 : Reduce(i)
    \/ Finish

-----------------------------------------------------------------------------
\* The polynomial that the gadget promises: the one whose value at every root of unity is the
\* gadget's value on those of its inputs.
ExactSum(j) ==
    LET n == Len(j.outp)
        values(x) == [i \in DOMAIN j.inp |-> poly_eval(j.inp[i], x)]
    IN  interpolate([i \in 1..n |-> gadget_call(j.gadget, values(pow(root(log2(n)), i - 1)))], n)

\* However the chunks are split and the sums reduced, whatever the output held before, a
\* coefficient of the result is the exact one, and the one that a single thread computes, as
\* long as every chunk overwrites it that comes after a chunk that set it.  So the result is
\* right throughout when no product of two polynomials is shorter than one before it, and a
\* buffer is cleared where powers are added up in it; coefficients that all products reach
\* are right in any case (call_poly of Mul, PolyEval, ParallelSum, ParallelSumMultithreaded).
SumIsExactWhereWritten ==
    segments = <<>> =>
        LET exact == ExactSum(job)
            serial == gadget_call_poly(job.gadget, job.inp)
        IN  \A k \in DOMAIN outp :
                ~keeps(job.gadget, job.inp, Len(outp), k) => outp[k] = exact[k] /\ serial[k] = exact[k]

\* What the comment in ParallelSumMultithreaded::call_poly says: the result is that of the
\* single-threaded calculation, since only additions are rearranged.
SumIsSerial == segments = <<>> => outp = gadget_call_poly(job.gadget, job.inp)
=============================================================================
