----------------------------- MODULE TicketSale -----------------------------
(***************************************************************************)
(* chapter_3/thread/case_sell_tickets.cpp: threads sell from one stock under *)
(* a mutex they only try to lock; main() joins them one after the other and *)
(* adds up what each says it sold.                                          *)
(*                                                                          *)
(* The threads are there from the start: main() waits for none of them      *)
(* before it has created them all, so that their first steps in any order   *)
(* cover a late creation. A failed trylock and the usleep() after it change *)
(* nothing.                                                                 *)
(***************************************************************************)
EXTENDS Integers, FiniteSetsExt

CONSTANTS
  ThreadNum,    \* THREAD_NUM
  TicketsNum    \* TICKETS_NUM

ASSUME SaleAssumption == ThreadNum \in Nat \ {0} /\ TicketsNum \in Nat

(* The threads in the order in which main() joins them.                     *)
Sellers == 1..ThreadNum

Unlocked == 0

VARIABLES
  ticketsNum,   \* tickets_num
  saleMutex,    \* the seller that holds the mutex, or Unlocked
  sellerPc,     \* "try", "test", "sell" or "exited"
  sell,         \* *sell of each thread, and its exit value
  joined,       \* how many threads main() has joined
  saleSum       \* sum in main()

saleVars == <<ticketsNum, saleMutex, sellerPc, sell, joined, saleSum>>

SaleTypeOK ==
  /\ ticketsNum \in Int
  /\ saleMutex \in Sellers \cup {Unlocked}
  /\ sellerPc \in [Sellers -> {"try", "test", "sell", "exited"}]
  /\ sell \in [Sellers -> Nat]
  /\ joined \in 0..ThreadNum
  /\ saleSum \in Nat

SaleInit ==
  /\ ticketsNum = TicketsNum
  /\ saleMutex = Unlocked
  /\ sellerPc = [s \in Sellers |-> "try"]
  /\ sell = [s \in Sellers |-> 0]
  /\ joined = 0
  /\ saleSum = 0

(* Mutant: the lines of the commented-out loop, without the mutex.          *)
TryLockAlways(s) ==
  /\ sellerPc[s] = "try"
  /\ sellerPc' = [sellerPc EXCEPT ![s] = "test"]
  /\ UNCHANGED <<ticketsNum, saleMutex, sell, joined, saleSum>>

TryLock(s) ==
  /\ sellerPc[s] = "try" /\ saleMutex = Unlocked
  /\ saleMutex' = s
  /\ sellerPc' = [sellerPc EXCEPT ![s] = "test"]
  /\ UNCHANGED <<ticketsNum, sell, joined, saleSum>>

FindTickets(s) ==
  /\ sellerPc[s] = "test" /\ ticketsNum > 0
  /\ sellerPc' = [sellerPc EXCEPT ![s] = "sell"]
  /\ UNCHANGED <<ticketsNum, saleMutex, sell, joined, saleSum>>

(* Mutant: break without the unlock of line 55.                             *)
LeaveLocked(s) ==
  /\ sellerPc[s] = "test" /\ ticketsNum <= 0
  /\ sellerPc' = [sellerPc EXCEPT ![s] = "exited"]
  /\ UNCHANGED <<ticketsNum, saleMutex, sell, joined, saleSum>>

SoldOut(s) ==
  /\ sellerPc[s] = "test" /\ ticketsNum <= 0
  /\ saleMutex' = Unlocked
  /\ sellerPc' = [sellerPc EXCEPT ![s] = "exited"]
  /\ UNCHANGED <<ticketsNum, sell, joined, saleSum>>

Sell(s) ==
  /\ sellerPc[s] = "sell"
  /\ ticketsNum' = ticketsNum - 1
  /\ sell' = [sell EXCEPT ![s] = @ + 1]
  /\ saleMutex' = Unlocked
  /\ sellerPc' = [sellerPc EXCEPT ![s] = "try"]
  /\ UNCHANGED <<joined, saleSum>>

(* pthread_join() waits for the next thread in order.                       *)
JoinSeller ==
  /\ joined < ThreadNum /\ sellerPc[joined + 1] = "exited"
  /\ joined' = joined + 1
  /\ saleSum' = saleSum + sell[joined + 1]
  /\ UNCHANGED <<ticketsNum, saleMutex, sellerPc, sell>>

SaleOver == joined = ThreadNum

SellerStep(s) == TryLock(s) \/ FindTickets(s) \/ SoldOut(s) \/ Sell(s)

SaleNext ==
  \/ \E s \in Sellers : SellerStep(s)
  \/ JoinSeller

SaleSpec == SaleInit /\ [][SaleNext]_saleVars

-----------------------------------------------------------------------------
(* What is to be shown.                                                     *)

(* A ticket is in stock or in the count of one seller, the stock is never   *)
(* oversold, and the sum main() prints is the number of tickets there were, *)
(* although each thread counts for itself and main() reads the counts only  *)
(* after the joins.                                                         *)
EveryTicketSoldOnce ==
  /\ ticketsNum >= 0
  /\ ticketsNum + MapThenSumSet(LAMBDA s : sell[s], Sellers) = TicketsNum
  /\ SaleOver => saleSum = TicketsNum
=============================================================================
