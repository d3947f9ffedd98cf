---------------------------- MODULE MCTradeFeed ----------------------------
(***************************************************************************)
(* Small instances of the trade feed for TLC.                              *)
(***************************************************************************)
EXTENDS TradeFeedImplementsLog
CONSTANTS r1, r2, t1, t2, short, cheap

ReadersAndFeed == Readers \cup {"feed"}
OnePrice == [t \in Trades |-> cheap]

(* feed_faults: up to two trades in a message, one of them incomplete.     *)
MixedMessages == { <<t1>>, <<t1, short, t2>>, <<short>> }

(* feed_readers: a message of two trades.                                  *)
PairMessage == { <<t1, t2>> }

(* feed_resent: the exchange sends a trade again.                          *)
ResentMessage == { <<t1>> }
=============================================================================
