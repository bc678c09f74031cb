---------------------------- MODULE MCDislREAgent ----------------------------
EXTENDS DislREAgent

\* Application threads are model values; the agent treats them alike
\* (ids come from avail_thread_id in the order threads first call), so
\* permuting them is a symmetry of every safety property.
CONSTANTS t1, t2
MCThreads == {t1, t2}
ThreadSymmetry == Permutations(MCThreads)

\* One ordering id: ordered requests of both threads meet in one slot.
MCOrderIds == {0}
=============================================================================
