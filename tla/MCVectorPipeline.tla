-------------------------- MODULE MCVectorPipeline --------------------------
(* Two threads share a pipeline whose counters peg early.                    *)
EXTENDS PipelineStats, SequencesExt

Symmetry  == Permutations(Threads)
MCBatches == {<<>>, <<1>>, <<0, 2>>}
MCSmallBatches == {<<1>>}
MCBytes   == [lengths \in MCBatches |-> FoldSeq(+, 0, lengths)]
=============================================================================
