-------------------------------- MODULE Rates --------------------------------
(***************************************************************************)
(* The tax rates dialog (rates.js) and its three sliders (libs/slider.js,  *)
(* libs/range.js): moving one slider moves the others, which must stay in  *)
(* their range and may be locked, so that the rates add up to 100; what    *)
(* adds up is sent to the civserver at once.  The maximum of the sliders   *)
(* is the client's own idea of the government, not the civserver's, so     *)
(* the rates the dialog is opened with need not be in its range.           *)
(***************************************************************************)
EXTENDS Integers, Sequences

CONSTANTS MaxRates,   \* maximum rates of governments
          Position    \* where a slider can be dragged to

\* The maximum of a government is a multiple of ten (government_max_rate).
ASSUME Percentages == MaxRates \subseteq {10 * i : i \in 5..10} /\ Position \subseteq 0..100

VARIABLES slider,   \* the values of the sliders
          lock,     \* the sliders that are locked
          maxrate,  \* the sliders' maximum
          offered   \* the packet_player_rates that was sent last, if any

ratesVars == <<slider, lock, maxrate, offered>>

Rate == {"tax", "lux", "sci"}
Settings == [Rate -> 0..100]

Total(r) == r["tax"] + r["lux"] + r["sci"]

RatesTypeOK == /\ slider \in Settings /\ lock \subseteq Rate /\ maxrate \in MaxRates
               /\ \A k \in Rate : slider[k] <= maxrate
               /\ offered \in Seq(Settings) /\ Len(offered) <= 1

Least(a, b) == IF a < b THEN a ELSE b
Most(a, b) == IF a > b THEN a ELSE b

\* Range.setValue and Range.setMaximum
InRangeOf(v, max) == Most(0, Least(v, max))

AddUp == {r \in [Rate -> {10 * i : i \in 0..10}] : Total(r) = 100}

Legal(max) == {r \in AddUp : \A k \in Rate : r[k] <= max}

\* create_rates_dialog: what the civserver has, cut off at the maximum.
Opened(r, max) == [k \in Rate |-> InRangeOf(r[k], max)]

\* What the civserver has can be anything that is legal there.
show_rates(max) == \E m \in MaxRates : \E r \in Legal(m) : slider' = Opened(r, max)

Init_rates == /\ maxrate \in MaxRates
              /\ slider \in {Opened(r, maxrate) : r \in Legal(maxrate)}
              /\ lock = {} /\ offered = <<>>

-----------------------------------------------------------------------------
Others(k) == CASE k = "tax" -> <<"lux", "sci">>
               [] k = "lux" -> <<"tax", "sci">>
               [] k = "sci" -> <<"lux", "tax">>

Tens(r) == [k \in Rate |-> r[k] - (r[k] % 10)]

\* Mutant: the maximum is not looked at.
AdjustFreely(r, k) == IF Total(r) = 100 \/ k \in lock THEN r
                      ELSE [r EXCEPT ![k] = Most(100 - Total(r) + @, 0)]

\* One of the other rates takes what is missing, as far as it can.
Adjust(r, k) == IF Total(r) = 100 \/ k \in lock THEN r
                ELSE [r EXCEPT ![k] = InRangeOf(100 - Total(r) + @, maxrate)]

\* update_tax_rates, update_lux_rates and update_sci_rates: the first of the
\* others, then the second; when that does not do, the slider that was moved
\* goes where the sum asks for it, and the others stay where they were.
update_rates(moved, k) ==
  LET start == Tens(moved)
      r == Adjust(Adjust(start, Others(k)[1]), Others(k)[2])
  IN  IF Total(r) # 100
      THEN /\ slider' = [start EXCEPT ![k] =
                           InRangeOf(100 - r[Others(k)[1]] - r[Others(k)[2]], maxrate)]
           /\ UNCHANGED offered
      ELSE slider' = r /\ offered' = <<r>>

\* The handle is dragged; a click beside it, a key or the wheel moves it by
\* its increment, which is a drag to a place ten further.
Slide == /\ \E k \in Rate :
              \E v \in Position \cup {slider[k] + 10, slider[k] - 10} :
                /\ v # slider[k]
                /\ update_rates([slider EXCEPT ![k] = InRangeOf(v, maxrate)], k)
         /\ UNCHANGED <<lock, maxrate>>

Lock == /\ \E k \in Rate : lock' = IF k \in lock THEN lock \ {k} ELSE lock \cup {k}
        /\ UNCHANGED <<slider, maxrate, offered>>

show_tax_rates_dialog == /\ maxrate' \in MaxRates
                         /\ show_rates(maxrate')
                         /\ lock' = {} /\ offered' = <<>>

Next_rates == Slide \/ Lock \/ show_tax_rates_dialog

RatesSpec == Init_rates /\ [][Next_rates]_ratesVars

-----------------------------------------------------------------------------
(***************************************************************************)
(* Properties                                                              *)
(***************************************************************************)

\* What is sent adds up, in tens and within the dialog's maximum, from every
\* position of the sliders and with every combination of locks: also from
\* those in which the sliders do not add up, where the adjustment that did not
\* do has left them.
SentLegal == offered # <<>> => Head(offered) \in Legal(maxrate)

\* What is sent is legal, and what is there is of its type.
RatesLegal == RatesTypeOK /\ SentLegal
=============================================================================
