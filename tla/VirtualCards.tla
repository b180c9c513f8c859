---------------------------- MODULE VirtualCards ----------------------------
(***************************************************************************)
(* AddVirtualNetworkCard of goroutine/test_coroutine.go: apNum virtual     *)
(* network cards, made block by block and filed in devArray by an index.   *)
(* Block i has the i-th prefix of the MAC and of the IP addresses; every   *)
(* block but the last has 201 cards, and indexes start at 200 * i + 1, so  *)
(* that the last card of a block and the first one of the next have the    *)
(* same index. The MAC bytes run on from block to block.                   *)
(*                                                                         *)
(* An address is the pair of its prefix and its last byte. The ifconfig    *)
(* command that would start the card is commented out in the code.         *)
(***************************************************************************)
EXTENDS Integers

CONSTANT ApNums     \* the numbers of cards that may be asked for; 3 in main

VARIABLES apNum,
          i,          \* the block
          j,          \* the last byte of the next IP address in the block
          mac_i,      \* index into macAddrs of the next MAC byte
          devArray,   \* index -> the card filed there
          pc          \* "block", "card", "done" or "panic"

vars == <<apNum, i, j, mac_i, devArray, pc>>

\* macAddrPre and ipAddrPre have 8 entries, macAddrs has 256.
Prefixes == 0..7
MacBytesOneMore == 0..256      \* mistake: a table of 257
MacBytes == 0..255

ids == apNum \div 200
remain == apNum % 200
timesOf200 == IF i # ids THEN 200 ELSE remain    \* mistake: blocks of 200
times == IF i # ids THEN 201 ELSE remain

\* Mistake: the blocks do not overlap.
IndexOf201(a, b) == a * 201 + b - 1
Index(a, b) == a * 200 + b - 1
\* Mistake: the prefix of the first block for all.
CardOneMacPrefix(a, b, c) == [Ip |-> <<0, b>>, Mac |-> <<0, c>>]
Card(a, b, c) == [Ip |-> <<a, b>>, Mac |-> <<a, c>>]

Init ==
  /\ apNum \in ApNums
  /\ i = 0 /\ j = 2 /\ mac_i = 1
  /\ devArray = [k \in {} |-> Card(0, 0, 0)]
  /\ pc = "block"

\* The head of the outer loop, and the return when nothing remains.
Block ==
  /\ pc = "block"
  /\ j' = 2
  /\ pc' = IF i > ids \/ (i = ids /\ remain = 0) THEN "done" ELSE "card"
  /\ UNCHANGED <<apNum, i, mac_i, devArray>>

\* One iteration of the inner loop; indexing past the end of a table panics.
Add ==
  /\ pc = "card" /\ j <= times + 1
  /\ IF i \in Prefixes /\ mac_i \in MacBytes
       THEN /\ devArray' = [k \in DOMAIN devArray \cup {Index(i, j)} |->
                              IF k = Index(i, j) THEN Card(i, j, mac_i) ELSE devArray[k]]
            /\ mac_i' = mac_i + 1
            /\ j' = j + 1
            /\ UNCHANGED pc
       ELSE pc' = "panic" /\ UNCHANGED <<devArray, mac_i, j>>
  /\ UNCHANGED <<apNum, i>>

\* Mistake: the MAC bytes start again with each block of another prefix.
NextBlockFromOne ==
  /\ pc = "card" /\ j > times + 1
  /\ i' = i + 1
  /\ mac_i' = 1
  /\ pc' = "block"
  /\ UNCHANGED <<apNum, j, devArray>>

NextBlock ==
  /\ pc = "card" /\ j > times + 1
  /\ i' = i + 1
  /\ pc' = "block"
  /\ UNCHANGED <<apNum, j, mac_i, devArray>>

Terminated == pc \in {"done", "panic"} /\ UNCHANGED vars

Next == Block \/ Add \/ NextBlock \/ Terminated

Spec == Init /\ [][Next]_vars /\ WF_vars(Next)

-----------------------------------------------------------------------------
(* Properties *)

\* Every variable has its type: a byte of an address fits a byte.
TypeOK ==
  /\ apNum \in ApNums
  /\ i \in Nat /\ j \in 2..203 /\ mac_i \in 1..256
  /\ pc \in {"block", "card", "done", "panic"}
  /\ DOMAIN devArray \subseteq Nat
  /\ \A k \in DOMAIN devArray :
       devArray[k] \in [Ip : Prefixes \X (2..202), Mac : Prefixes \X MacBytes]

\* Two cards on file never share an IP address, and the last byte of a MAC
\* address alone tells them apart, although the blocks overlap (line 113).
DistinctAddresses ==
  \A k, l \in DOMAIN devArray : k # l =>
    /\ devArray[k].Ip # devArray[l].Ip
    /\ devArray[k].Mac[2] # devArray[l].Mac[2]

\* When AddVirtualNetworkCard returns there is a card on file for each index
\* from 1 to apNum; a multiple of 200 leaves one card more than was asked for,
\* the seam to a block that is not made.
AllFiled ==
  pc = "done" =>
    DOMAIN devArray = 1..(IF remain = 0 /\ apNum > 0 THEN apNum + 1 ELSE apNum)

\* A card on file is replaced only at a seam, by the first card of the next
\* block; the card it replaces is lost.
KeepsCards ==
  \A k \in DOMAIN devArray : devArray'[k] # devArray[k] =>
    k % 200 = 1 /\ devArray[k].Ip = <<i - 1, 202>> /\ devArray'[k].Ip = <<i, 2>>

\* The 255 MAC bytes in use are enough for fewer than 255 cards, since the
\* seam takes one; with 255 or more the program panics (line 91).
Ended == pc = IF apNum < 255 THEN "done" ELSE "panic"
=============================================================================
