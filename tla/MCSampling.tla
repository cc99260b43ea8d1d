----------------------------- MODULE MCSampling -----------------------------
(***************************************************************************)
(* Model-checking instance of a sample's way into its bar: Sampling, where *)
(* it gets its price, and Ohlc, where it is folded.  The halves share no   *)
(* state, so a behaviour takes the steps of one of them.                   *)
(***************************************************************************)
EXTENDS Ohlc

CONSTANTS Venue, Donor, Tolerance, MaxLag, MaxFaults

VARIABLES
    half,  \* never changes
    venue, stage, listed, metas, by_base, age, lag, samples, faults

Loop == INSTANCE Sampling

loopVars == <<venue, stage, listed, metas, by_base, age, lag, samples, faults>>

\* Dollar pegs on a middle and on the last venue.
MCDonor == {[ex |-> "bybit", base |-> "BTC", quote |-> "USDC"],
            [ex |-> "aster", base |-> "BTC", quote |-> "USDT"]}

ASSUME Loop!SamplingAssumption

\* The half at rest has one initial state.
MCInit ==
    /\ Init /\ Loop!Init
    /\ \/ half = "bar" /\ venue = "okx" /\ listed = Loop!Own(venue)
       \/ half = "price" /\ unit = "coins" /\ mult = None

MCNext ==
    \/ half = "bar" /\ Next /\ UNCHANGED <<half, loopVars>>
    \/ half = "price" /\ Loop!Next /\ UNCHANGED <<half, vars>>

MCSpec == MCInit /\ [][MCNext]_<<half, vars, loopVars>> /\ Loop!Fairness

\* runner.rs:498-502 - Sampling's property: a sample without a price of its
\* own takes the best usable quote that any loop has left in the provider.
BestPriceUsed == [][Loop!BestPriceTaken]_samples

\* Sampling's property: a listed perpetual is sampled sooner or later, whatever
\* rows and calls went wrong before, unless the first discovery failed.
ListingsSampled == Loop!ListingsSampled
=============================================================================
