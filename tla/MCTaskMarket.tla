----------------------------- MODULE MCTaskMarket -----------------------------
EXTENDS TaskMarket, TLC

\* A token task for several workers, and a SOL task that depends on another
\* one and takes bids (bid tasks are for SOL only): between them every layout
\* of the accounts, the longest ones included.
MCKind == {[bid |-> FALSE, mint |-> <<"mint">>, parent |-> FALSE],
           [bid |-> TRUE, mint |-> Null, parent |-> TRUE]}

\* No signer, too few, enough, and enough with one of them named twice.
MCSignerLists == {<<>>, <<"s1">>, <<"s1", "s2">>, <<"s1", "s2", "s1">>}
=============================================================================
