---------------------------- MODULE MCProgramClients ----------------------------
(***************************************************************************)
(* Program memories for the runs of ProgramClients: four words in which    *)
(* the two PM-data types follow each other, stand in a two-word loop that  *)
(* the cache holds, stand at the address wrap, and meet a word the machine *)
(* does not execute.                                                       *)
(***************************************************************************)
EXTENDS ProgramClients

Plain(class) == [class |-> class, target |-> 0]

JumpTo(address) == [class |-> "JUMP", target |-> address]

Memory(word0, word1, word2, word3) ==
  [a \in Addresses |-> CASE a = 0 -> word0
                         [] a = 1 -> word1
                         [] a = 2 -> word2
                         [] a = 3 -> word3]

MCAddresses == 0 .. 3

\* Type 13 at 2 finds the target of the jump at 3 cached on later rounds.
DataLoop == Memory(Plain("TYPE5"), Plain("SEQUENTIAL"), Plain("TYPE13"), JumpTo(2))

\* Back-to-back data accesses, the second one's successor across the wrap.
DataPair == Memory(Plain("UNSUPPORTED"), JumpTo(3), Plain("TYPE5"), Plain("TYPE13"))

MCPrograms == {DataLoop, DataPair}

=============================================================================
