--------------------------- MODULE RewardsGenesis ---------------------------
(***************************************************************************)
(* x/rewards and x/tracking over an export and import of the chain's state *)
(* between two blocks.  The balances are restored by x/bank and the chain  *)
(* goes on at the next height.                                             *)
(***************************************************************************)
EXTENDS Rewards, FiniteSetsExt

(* The rewards of transactions are stored under their height, whatever     *)
(* their identifiers; of those of one block the last one is kept.          *)
ImportedTxRewards ==
    LET heights == {txRewards[i].height : i \in DOMAIN txRewards}
        last(h) == Max({i \in DOMAIN txRewards : txRewards[i].height = h})
    IN  [h \in heights |-> txRewards[last(h)]]

(* ExportGenesis and InitGenesis.  Records are written through the indexed *)
(* map, which builds the index; all the rest is set as it was.             *)
RestartRewards ==
    /\ T!Restart
    /\ txRewards' = ImportedTxRewards
    /\ recordIndex' = {<<records[i].rewardsAddress, i>> : i \in DOMAIN records}
    /\ UNCHANGED <<bank, minConsFee, unfunded, recordID, records, blockRewards, settings>>

GenesisNext == Next \/ RestartRewards

GenesisSpec == Init /\ [][GenesisNext]_vars
=============================================================================
