--------------------------- MODULE MCXcmExecution ---------------------------
(* Messages of an instance of XcmExecution: assets come in, execution is   *)
(* bought, for enough fees or not, and assets go somewhere.                *)
EXTENDS XcmExecution

Incoming ==
    [op : {"WithdrawAsset", "ReserveAssetDeposited", "ReceiveTeleportedAsset"}, amount : {3}]
    \cup [op : {"ClaimAsset"}, amount : {2, 3}]

Outgoing ==
    [op : Transfers, amount : {2}, dest : Origins] \cup [op : Deposits \cup Initiates, dest : Origins]

Buy == [op |-> "BuyExecution", fees |-> 2, limit |-> MaxInstructions]
BuyLittle == {[Buy EXCEPT !.fees = 1], [Buy EXCEPT !.limit = 1]}
Clear == [op |-> "ClearOrigin"]

\* A nested program that sends reserves, deposits or fails, set before another
\* instruction; once as the appendix of a message that sets an error handler.
Programs ==
    {<< [op |-> o, dest |-> d] >> : o \in {"DepositAsset", "InitiateReserveWithdraw"},
                                   d \in {"Parent", "Local"}}
    \cup {<< [op |-> "WithdrawAsset", amount |-> 3], [op |-> "DepositAsset", dest |-> "Sibling"] >>}
Sets == [op : {"SetAppendix", "SetErrorHandler"}, xcm : Programs]

MCMessages ==
    {<< i, Buy >> : i \in Incoming}
    \cup {<< i, Clear, Buy, o >> : i \in Incoming, o \in Outgoing}
    \cup {<< i, Buy, o >> : i \in Incoming, o \in Outgoing}
    \cup {<< i, b, [op |-> "DepositAsset", dest |-> "Local"] >> : i \in Incoming, b \in BuyLittle}
    \cup {<< i, o >> : i \in Incoming, o \in Outgoing}
    \cup {<< i, Buy, s, o >> : i \in Incoming, s \in Sets,
                              o \in Outgoing \cap [op : {"DepositAsset", "InitiateTeleport"}, dest : Origins]}
    \cup {<< [op |-> "WithdrawAsset", amount |-> 3], Buy, s, t, [op |-> "DepositAsset", dest |-> d] >> :
            s \in Sets, t \in Sets, d \in {"Local", "ParentExecutive"}}

=============================================================================
