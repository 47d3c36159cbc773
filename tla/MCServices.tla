------------------------------- MODULE MCServices -------------------------------
(***************************************************************************)
(* The services around the payments and the sign-in, in one run.  They     *)
(* share no state and never wait for each other, so a behaviour of all of  *)
(* them is an interleaving of behaviours of each: it is enough to look at  *)
(* each alone.  A behaviour here is one of the component in focus; the     *)
(* others stay in one of their initial states.                             *)
(***************************************************************************)
EXTENDS GeoEstimates, AddressPicker, AuthBot, Devices, Catalog, PhoneCodes,
        AppleSignIn, LoanApplication, TLC

CONSTANTS a1, a2, a3, p1, p2

\* Two ways to write one address, and another address.
TwoOfOnePlace == a1 :> p1 @@ a2 :> p1 @@ a3 :> p2

VARIABLE focus

allVars == <<focus, geoVars, pickerVars, botVars, deviceVars, catalogVars,
             codeVars, appleVars, loanVars>>

Services == {"geo", "picker", "bot", "devices", "catalog", "codes", "apple", "loan"}

ServicesInit ==
    /\ focus \in Services
    /\ GeoInit /\ PickerInit /\ BotInit /\ DevicesInit /\ CatalogInit
    /\ PhoneCodesInit /\ AppleInit /\ LoanInit
    /\ focus # "bot" => ~useWebhook
    /\ focus # "catalog" => shopCategories = {}
    /\ focus # "loan" => checkoutTotal = 0

ServicesNext ==
    /\ UNCHANGED focus
    /\ \/ /\ focus = "geo" /\ GeoNext
          /\ UNCHANGED <<pickerVars, botVars, deviceVars, catalogVars, codeVars,
                         appleVars, loanVars>>
       \/ /\ focus = "picker" /\ PickerNext
          /\ UNCHANGED <<geoVars, botVars, deviceVars, catalogVars, codeVars,
                         appleVars, loanVars>>
       \/ /\ focus = "bot" /\ BotNext
          /\ UNCHANGED <<geoVars, pickerVars, deviceVars, catalogVars, codeVars,
                         appleVars, loanVars>>
       \/ /\ focus = "devices" /\ DevicesNext
          /\ UNCHANGED <<geoVars, pickerVars, botVars, catalogVars, codeVars,
                         appleVars, loanVars>>
       \/ /\ focus = "catalog" /\ CatalogNext
          /\ UNCHANGED <<geoVars, pickerVars, botVars, deviceVars, codeVars,
                         appleVars, loanVars>>
       \/ /\ focus = "codes" /\ PhoneCodesNext
          /\ UNCHANGED <<geoVars, pickerVars, botVars, deviceVars, catalogVars,
                         appleVars, loanVars>>
       \/ /\ focus = "apple" /\ AppleNext
          /\ UNCHANGED <<geoVars, pickerVars, botVars, deviceVars, catalogVars,
                         codeVars, loanVars>>
       \/ /\ focus = "loan" /\ LoanNext
          /\ UNCHANGED <<geoVars, pickerVars, botVars, deviceVars, catalogVars,
                         codeVars, appleVars>>

ServicesSpec == ServicesInit /\ [][ServicesNext]_allVars /\ BotFairness

\* The type invariants of the services: every table, cache and request in hand
\* is of its type.
ServicesTypeOK ==
    /\ GeoTypeOK /\ PickerTypeOK /\ BotTypeOK /\ DevicesTypeOK
    /\ CatalogTypeOK /\ PhoneCodesTypeOK /\ AppleTypeOK /\ LoanTypeOK
=============================================================================
