---------------------------- MODULE BlockBuffer ----------------------------
(***************************************************************************)
(* goroutine/demo_mutex.go: goroutines that each write blocks - a header   *)
(* and then equal data chunks - into one bytes.Buffer, under a mutex when  *)
(* the flag `protecting` is not 0 (its default). main receives a sign from *)
(* each and reads the whole buffer.                                        *)
(*                                                                         *)
(* bytes.Buffer.Write finds the length m of its slice, sets the length to  *)
(* m plus what it writes, and copies into buf[m:]. Without the mutex these *)
(* three steps of two writes interleave: chunks are overwritten or lost,   *)
(* and a slice that another write has made shorter than m panics. A chunk  *)
(* is one cell here; `buffer` is the backing array (what a reallocation    *)
(* moves along) and `len` the length of the slice.                         *)
(***************************************************************************)
EXTENDS Integers, Sequences, FiniteSets

CONSTANTS Goroutine,     \* max1 = 5 in the code
          Blocks,        \* max2 = 10
          Chunks,        \* max3 = 10
          NoOne

VARIABLES protecting, mu,
          buffer, len,
          m,         \* m[g]: the length g's Write has found
          pc,        \* "lock", "find", "grow", "copy", "unlock", "sign", "done", "panicked"
          j, k,      \* the loop variables: block, and chunk (0: the header)
          sign, received

vars == <<protecting, mu, buffer, len, m, pc, j, k, sign, received>>
bufferVars == <<buffer, len, m>>
loopVars == <<j, k>>
mainVars == <<sign, received>>

NoChunk == [id |-> NoOne, j |-> 0, k |-> 0]

TypeOK ==
  /\ protecting \in {0, 1} /\ mu \in Goroutine \cup {NoOne}
  /\ len \in 0..Len(buffer)
  /\ \A n \in 1..Len(buffer) : buffer[n] # NoChunk =>
       buffer[n].id \in Goroutine /\ buffer[n].j \in 1..Blocks /\ buffer[n].k \in 0..Chunks
  /\ m \in [Goroutine -> 0..Len(buffer)]
  /\ \A g \in Goroutine : j[g] \in 1..(Blocks + 1) /\ k[g] \in 0..Chunks
  /\ sign \in 0..Cardinality(Goroutine) /\ received \in 0..Cardinality(Goroutine)

\* flag.Parse(): 0 unless the command line says otherwise.
Init ==
  /\ protecting \in {0, 1}
  /\ mu = NoOne
  /\ buffer = <<>> /\ len = 0
  /\ m = [g \in Goroutine |-> 0]
  /\ pc = [g \in Goroutine |-> "lock"]
  /\ j = [g \in Goroutine |-> 1] /\ k = [g \in Goroutine |-> 0]
  /\ sign = 0 /\ received = 0

\* A panic of one goroutine ends the program.
Panicked == \E g \in Goroutine : pc[g] = "panicked"
Exited == received = Cardinality(Goroutine)

At(g, label) == ~Exited /\ ~Panicked /\ pc[g] = label

Goto(g, label) == pc' = [pc EXCEPT ![g] = label]

-----------------------------------------------------------------------------

\* The top of the loop: mu.Lock() if protecting > 0, or the deferred sign.
LockUnchecked(g) ==
  /\ At(g, "lock")
  /\ Goto(g, IF j[g] > Blocks THEN "sign" ELSE "find")
  /\ UNCHANGED <<protecting, mu, bufferVars, loopVars, mainVars>>

Lock(g) ==
  /\ At(g, "lock")
  /\ IF j[g] > Blocks THEN Goto(g, "sign") /\ UNCHANGED mu
     ELSE /\ protecting > 0 => mu = NoOne
          /\ mu' = IF protecting > 0 THEN g ELSE mu
          /\ Goto(g, "find")
  /\ UNCHANGED <<protecting, bufferVars, loopVars, mainVars>>

\* writer.Write, first step: where the chunk goes.
Find(g) ==
  /\ At(g, "find")
  /\ m' = [m EXCEPT ![g] = len]
  /\ Goto(g, "grow")
  /\ UNCHANGED <<protecting, mu, buffer, len, loopVars, mainVars>>

\* Second step: the slice ends behind the chunk to come.
Grow(g) ==
  /\ At(g, "grow")
  /\ len' = m[g] + 1
  /\ buffer' = IF len' > Len(buffer) THEN Append(buffer, NoChunk) ELSE buffer
  /\ Goto(g, "copy")
  /\ UNCHANGED <<protecting, mu, m, loopVars, mainVars>>

\* Third step: copy(buf[m:], chunk), and the loop over the chunks of the block.
Copy(g) ==
  /\ At(g, "copy")
  /\ IF m[g] > len THEN Goto(g, "panicked") /\ UNCHANGED <<buffer, k>>
     ELSE /\ buffer' = IF m[g] = len THEN buffer
                       ELSE [buffer EXCEPT ![m[g] + 1] = [id |-> g, j |-> j[g], k |-> k[g]]]
          /\ k' = [k EXCEPT ![g] = IF @ < Chunks THEN @ + 1 ELSE 0]
          /\ Goto(g, IF k[g] < Chunks THEN "find" ELSE "unlock")
  /\ UNCHANGED <<protecting, mu, len, m, j, mainVars>>

\* mu.Unlock() if protecting > 0, and the next block.
Unlock(g) ==
  /\ At(g, "unlock")
  /\ mu' = IF protecting > 0 THEN NoOne ELSE mu
  /\ j' = [j EXCEPT ![g] = @ + 1]
  /\ Goto(g, "lock")
  /\ UNCHANGED <<protecting, bufferVars, k, mainVars>>

\* defer func() { sign <- struct{}{} }()
Sign(g) ==
  /\ At(g, "sign") /\ sign < Cardinality(Goroutine)
  /\ sign' = sign + 1
  /\ Goto(g, "done")
  /\ UNCHANGED <<protecting, mu, bufferVars, loopVars, received>>

Step(g) == Lock(g) \/ Find(g) \/ Grow(g) \/ Copy(g) \/ Unlock(g) \/ Sign(g)

\* <-sign in main
Receive ==
  /\ ~Exited /\ ~Panicked /\ sign > 0
  /\ sign' = sign - 1 /\ received' = received + 1
  /\ UNCHANGED <<protecting, mu, bufferVars, pc, loopVars>>

Terminated == (Exited \/ Panicked) /\ UNCHANGED vars

Next == (\E g \in Goroutine : Step(g)) \/ Receive \/ Terminated

Spec == Init /\ [][Next]_vars /\ WF_vars(Receive) /\ \A g \in Goroutine : WF_vars(Step(g))

-----------------------------------------------------------------------------
(* Properties *)

\* With the mutex the chunks of a block are written one after the other, the
\* header first: nothing of another goroutine comes in between, no chunk is
\* cut off by another write, and no write panics.
WholeBlocks ==
  protecting > 0 =>
    /\ ~Panicked /\ len = Len(buffer)
    /\ \A n \in 1..len : buffer[n] # NoChunk =>
         IF buffer[n].k = 0 THEN n = 1 \/ buffer[n - 1].k = Chunks
         ELSE n > 1 /\ buffer[n - 1] = [buffer[n] EXCEPT !.k = @ - 1]

\* With the mutex every chunk of every block is there, exactly once, when main
\* reads the buffer.
ContentsComplete ==
  protecting > 0 /\ Exited =>
    /\ {buffer[n] : n \in 1..len} = [id : Goroutine, j : 1..Blocks, k : 0..Chunks]
    /\ len = Cardinality(Goroutine) * Blocks * (Chunks + 1)

\* Every goroutine signs and main prints the contents, unless a write without
\* the mutex has panicked.
MainExits == <>(Exited \/ (protecting = 0 /\ Panicked))
=============================================================================
