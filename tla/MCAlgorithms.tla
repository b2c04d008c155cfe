---------------------------- MODULE MCAlgorithms ----------------------------
(***************************************************************************)
(* Three independent machines in one run, of which a behaviour takes one:  *)
(* the rules of headers, filtered blocks, and locators.                    *)
(***************************************************************************)
EXTENDS HeaderChain, FilteredBlocks, LocatorExchange

CONSTANT MaxTxs  \* bound: transactions of the first block of a chain

VARIABLE part

allVars == <<part, headerVars, filterVars, exchangeVars>>

-----------------------------------------------------------------------------
\* A block in which the transactions of Paying pay to the client, the others to
\* someone else, and one after it whose second transaction spends one of them.
Tx(id, outputs, inputs) == [id |-> id, Outputs |-> outputs, Inputs |-> inputs]

MCChains ==
  UNION {{<<[i \in 1 .. n |-> Tx(i, <<IF i % 2 = 0 THEN "other" ELSE "third", IF i \in paying THEN "mine" ELSE "third">>, {})],
            <<Tx(101, <<"third">>, {}), Tx(102, <<"other">>, {OutPoint(spent, 2)})>> >>
            : paying \in SUBSET (1 .. n), spent \in {1, n}} : n \in 1 .. MaxTxs}

\* Three bits: addresses do not collide, but "other" collides with the outpoint
\* of the first transaction, so that a filter matches more than it was given.
MCHashBits(e) ==
  CASE e.type = "address" -> (IF e.address = "mine" THEN {0, 1}
                              ELSE IF e.address = "other" THEN {1, 2} ELSE {3, 4})
    [] e.type = "outpoint" -> (IF e.id = 1 THEN {1, 2} ELSE {5 + e.id})
    [] OTHER -> {100 + e.id}

-----------------------------------------------------------------------------
Init ==
  /\ part \in {"headers", "filter", "locator"}
  /\ HeaderInit /\ ExchangeInit
  /\ filter = NoFilter /\ next = 1 /\ reply = NoReply /\ received = {}
  /\ IF part = "filter" THEN served \in Chains ELSE served = <<>>

Next ==
  \/ part = "headers" /\ HeaderNext /\ UNCHANGED <<part, filterVars, exchangeVars>>
  \/ part = "filter" /\ FilterNext /\ UNCHANGED <<part, headerVars, exchangeVars>>
  \/ part = "locator" /\ ExchangeNext /\ UNCHANGED <<part, headerVars, filterVars>>

Spec == Init /\ [][Next]_allVars
=============================================================================
