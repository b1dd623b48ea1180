------------------------------ MODULE MCDidKyc ------------------------------
(***************************************************************************)
(* An instance of DidSystem for TLC: one DID, its issuer, amax.did and one *)
(* user, all of whom may apply; a vendor with a row for level 2 and, once  *)
(* added, one for level 1.  Level 5 is 1 as a uint32 of four values, which *)
(* a memo may name and addvendor does not take.                            *)
(***************************************************************************)
EXTENDS DidSystem, TLC

CONSTANTS issuer, kyc, user, uri, admin, collector, vendor

Did == [id |-> 1, parent |-> 0]
SystemSymbol == {Did}

\* The contracts as they are once deployed: create, issue and init have been
\* called, the two units of the DID are in the hands of the issuer, and a vendor
\* is there for level 2.
Deployed ==
    /\ nstats = Put(EmptyTable, StatKey(1),
                    [symbol |-> Did, supply |-> 2, maxSupply |-> 2, uri |-> uri,
                     issuer |-> issuer, notary |-> NoNotary])
    /\ accounts = Put(EmptyTable, AcctKey(issuer, Did),
                      NewRow([symbol |-> Did, amount |-> 2]))
    /\ notaries = {}
    /\ vendors = Put(EmptyTable, 1,
                     [account |-> vendor, level |-> 2, reward |-> 2, charge |-> 1,
                      nft |-> Did, status |-> "running"])
    /\ orders = EmptyTable
    /\ pendings = {}
    /\ kycState = [admin |-> admin, nftContract |-> TRUE,
                   feeCollector |-> collector, lastOrder |-> 0, lastVendor |-> 1]
    /\ bank = 0
    /\ apples = 0
    /\ adminBank = 0

DeployedSpec == Deployed /\ [][SystemNext]_systemVars

\* Bounds: one account at a time may send, and one vendor does not work.
Few ==
    /\ Cardinality({k \in DOMAIN accounts : accounts[k].allowSend}) <= 1
    /\ \A k \in DOMAIN accounts : ~accounts[k].allowRecv
    /\ Cardinality({v \in DOMAIN vendors : vendors[v].status = "stop"}) <= 1
=============================================================================
