---------------------------- MODULE MCCryptoLane ----------------------------
(* Instances of CryptoLane for TLC: one command line and one dashboard       *)
(* process, or two command lines, over two symbols.                          *)
EXTENDS CryptoLane

OneSymbol == <<"BTC-USD">>
TwoSymbols == <<"BTC-USD", "ETH-USD">>

Supervisable == {"run-live", "bounded", "dry-loop", "single", "smoke", "submit-smoke"}
Loops        == {"live-loop", "paper-loop", "bounded"}

\* The rules the bounded commands ask for: one trade a day, one position, BTC only.
OneConfig == {[trades |-> 1, open |-> 1, btcOnly |-> TRUE]}
=============================================================================
