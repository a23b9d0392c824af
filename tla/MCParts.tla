------------------------------- MODULE MCParts -------------------------------
(***************************************************************************)
(* The parts that share no state, side by side: one step chooses a part,   *)
(* and from then on only that part moves.                                  *)
(***************************************************************************)
EXTENDS LogFormat, Memtable, ThreadPool, LruCache, Iterators, Tables, Environment, FileLocks,
        RbTree, Codec, StlContainers, StlThreads, Rpc

CONSTANT Parts

VARIABLE part

MCTabUsers == {<<1>>, <<1, 1>>, <<1, 3>>, <<3>>, <<3, 3>>}
MCCodSlices == {<<>>, <<1>>}
MCSame(c, n) == [i \in 1..n |-> c]
MCRamp(a, n) == [i \in 1..n |-> a + i]
MCCodChunks == {<<>>, <<7>>, <<1, 2, 3, 4, 5>>, MCSame(0, 9), MCSame(3, 70), MCRamp(10, 70)}
MCStKeys == {<<>>, <<1>>, <<2>>, <<1, 1>>, <<1, 0>>}
MCStPrimes == <<2, 5, 7>>

Init ==
  /\ part = "none"
  /\ LogInit /\ MemInit /\ PoolInit /\ LruInit /\ ItInit /\ TabInit /\ EnvInit /\ LockInit
  /\ RbInit /\ CodInit /\ StInit /\ ThrInit /\ RpcInit

Choose ==
  /\ part = "none" /\ part' \in Parts
  /\ UNCHANGED <<logVars, memVars, poolVars, lruVars, itVars, tabVars, envVars, lockVars, rbVars,
                 codVars, stVars, thrVars, rpcVars>>

Next ==
  \/ Choose
  \/ /\ part = "log" /\ LogNext
     /\ UNCHANGED <<part, memVars, poolVars, lruVars, itVars, tabVars, envVars, lockVars, rbVars,
                    codVars, stVars, thrVars, rpcVars>>
  \/ /\ part = "memtable" /\ MemNext
     /\ UNCHANGED <<part, logVars, poolVars, lruVars, itVars, tabVars, envVars, lockVars, rbVars,
                    codVars, stVars, thrVars, rpcVars>>
  \/ /\ part = "pool" /\ PoolNext
     /\ UNCHANGED <<part, logVars, memVars, lruVars, itVars, tabVars, envVars, lockVars, rbVars,
                    codVars, stVars, thrVars, rpcVars>>
  \/ /\ part = "lru" /\ LruNext
     /\ UNCHANGED <<part, logVars, memVars, poolVars, itVars, tabVars, envVars, lockVars, rbVars,
                    codVars, stVars, thrVars, rpcVars>>
  \/ /\ part = "iterators" /\ IterNext
     /\ UNCHANGED <<part, logVars, memVars, poolVars, lruVars, tabVars, envVars, lockVars, rbVars,
                    codVars, stVars, thrVars, rpcVars>>
  \/ /\ part = "tables" /\ TabNext
     /\ UNCHANGED <<part, logVars, memVars, poolVars, lruVars, itVars, envVars, lockVars, rbVars,
                    codVars, stVars, thrVars, rpcVars>>
  \/ /\ part = "environment" /\ EnvNext
     /\ UNCHANGED <<part, logVars, memVars, poolVars, lruVars, itVars, tabVars, lockVars, rbVars,
                    codVars, stVars, thrVars, rpcVars>>
  \/ /\ part = "locks" /\ LockNext
     /\ UNCHANGED <<part, logVars, memVars, poolVars, lruVars, itVars, tabVars, envVars, rbVars,
                    codVars, stVars, thrVars, rpcVars>>
  \/ /\ part = "rbtree" /\ RbNext
     /\ UNCHANGED <<part, logVars, memVars, poolVars, lruVars, itVars, tabVars, envVars, lockVars,
                    codVars, stVars, thrVars, rpcVars>>
  \/ /\ part = "codec" /\ CodNext
     /\ UNCHANGED <<part, logVars, memVars, poolVars, lruVars, itVars, tabVars, envVars, lockVars,
                    rbVars, stVars, thrVars, rpcVars>>
  \/ /\ part = "containers" /\ StNext
     /\ UNCHANGED <<part, logVars, memVars, poolVars, lruVars, itVars, tabVars, envVars, lockVars,
                    rbVars, codVars, thrVars, rpcVars>>
  \/ /\ part = "threads" /\ ThrNext
     /\ UNCHANGED <<part, logVars, memVars, poolVars, lruVars, itVars, tabVars, envVars, lockVars,
                    rbVars, codVars, stVars, rpcVars>>
  \/ /\ part = "rpc" /\ RpcNext
     /\ UNCHANGED <<part, logVars, memVars, poolVars, lruVars, itVars, tabVars, envVars, lockVars,
                    rbVars, codVars, stVars, thrVars>>

Spec ==
  Init /\ [][Next]_<<part, logVars, memVars, poolVars, lruVars, itVars, tabVars, envVars, lockVars,
                     rbVars, codVars, stVars, thrVars, rpcVars>>
=============================================================================
