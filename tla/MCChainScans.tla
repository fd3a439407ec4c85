---------------------------- MODULE MCChainScans -----------------------------
(* The protocols of the run.  Each has three states, which differ in a price, *)
(* in a Trove closed (its neighbours move down the list) and in what a        *)
(* redistribution added.                                                      *)
EXTENDS ChainScans

Trove1(o, coll, debt) == [owner |-> o, coll |-> coll, debt |-> debt,
                          stake |-> 4, snapEth |-> 0, snapDebt |-> 0]
ThreeTroves == <<Trove1("a", 10, 20), Trove1("b", 30, 30), Trove1("c", 30, 20)>>

V1Example ==
  {[gasPrice |-> 1, price |-> 2, lEth |-> 0, lDebt |-> 0,
    troves |-> ThreeTroves],
   [gasPrice |-> 3, price |-> 4, lEth |-> 3, lDebt |-> 0,
    troves |-> Tail(ThreeTroves)],
   [gasPrice |-> 1, price |-> 1, lEth |-> 0, lDebt |-> 3,
    troves |-> ThreeTroves]}

TwoBranches == <<[symbol |-> "WETH", mcr |-> 2], [symbol |-> "rETH", mcr |-> 3]>>
Trove2(i, coll, debt) == [id |-> i, coll |-> coll, debt |-> debt]

V2Example ==
  {[gasPrice |-> 1, price |-> [WETH |-> 2, rETH |-> 2],
    troves |-> [WETH |-> <<Trove2(1, 5, 10), Trove2(2, 6, 10), Trove2(3, 9, 9)>>,
                rETH |-> <<Trove2(1, 5, 4)>>]],
   [gasPrice |-> 2, price |-> [WETH |-> 4, rETH |-> 4],
    troves |-> [WETH |-> <<Trove2(2, 6, 10), Trove2(3, 9, 9)>>,
                rETH |-> <<Trove2(1, 5, 4)>>]],
   [gasPrice |-> 1, price |-> [WETH |-> 1, rETH |-> 2],
    troves |-> [WETH |-> <<Trove2(1, 5, 10), Trove2(2, 6, 10), Trove2(3, 9, 9)>>,
                rETH |-> << >>]]}

Vessel(b, coll, debt) == [borrower |-> b, coll |-> coll, debt |-> debt]

GExample ==
  {[gasPrice |-> 1, assets |-> <<"x", "y">>, active |-> [x |-> TRUE, y |-> TRUE],
    mcr |-> [x |-> 2, y |-> 2], price |-> [x |-> 2, y |-> 1],
    vessels |-> [x |-> <<Vessel("a", 5, 10), Vessel("b", 6, 10), Vessel("c", 9, 9)>>,
                 y |-> <<Vessel("d", 5, 4)>>]],
   [gasPrice |-> 2, assets |-> <<"x">>, active |-> [x |-> TRUE, y |-> FALSE],
    mcr |-> [x |-> 2, y |-> 2], price |-> [x |-> 4, y |-> 1],
    vessels |-> [x |-> <<Vessel("b", 6, 10), Vessel("c", 9, 9)>>,
                 y |-> <<Vessel("d", 5, 4)>>]],
   [gasPrice |-> 1, assets |-> <<"x", "y">>, active |-> [x |-> TRUE, y |-> FALSE],
    mcr |-> [x |-> 3, y |-> 2], price |-> [x |-> 1, y |-> 0],
    vessels |-> [x |-> <<Vessel("a", 5, 10), Vessel("b", 9, 10)>>,
                 y |-> << >>]]}
==============================================================================
