-------------------------- MODULE RequestDocuments --------------------------
(***************************************************************************)
(* The five services of the office, the documents each one asks for, and   *)
(* the rule that says which documents a request still misses               *)
(* (packages/contracts/src/service-requests.ts).  No state: the server     *)
(* applies the rule on submit, the application shows it before.            *)
(***************************************************************************)

ServiceCode == {"FR-101", "FR-102", "FR-103", "FR-104", "FR-105"}

(* A form, as far as the rule looks at it: the service whose schema it      *)
(* matches, and the identity document it names, if that schema has one.     *)
AsksIdentity == {"FR-101", "FR-105"}
Form ==
    [service: AsksIdentity, identity: {"national_id", "passport"}]
        \cup [service: ServiceCode \ AsksIdentity, identity: {"none"}]

Required(codes) == [code: codes, requirement: {"required"}]
Optional(codes) == [code: codes, requirement: {"optional"}]

IdentityDocuments ==
    [code: {"national_id_front", "national_id_back"}, requirement: {"national_id_only"}]
        \cup [code: {"passport"}, requirement: {"passport_only"}]

CompanyDocuments ==
    [code: {"articles_of_association", "incorporation_contract", "partner_identities"},
     requirement: {"company_only"}]

ServiceDocuments(service) ==
    CASE service = "FR-101" ->
           IdentityDocuments \cup Required({"commercial_register"})
               \cup Optional({"lease_contract"})
      [] service = "FR-102" ->
           Required({"trade_name_registration", "practice_license", "insurance_card"})
               \cup CompanyDocuments
      [] service = "FR-103" ->
           Required({"trade_name_registration", "practice_license", "insurance_card"})
               \cup CompanyDocuments \cup Optional({"tax_card_copy", "last_tax_position"})
      [] service = "FR-104" ->
           Required({"previous_commercial_register", "new_commercial_register",
                     "new_register_certificate", "valid_tax_card",
                     "practice_license", "insurance_card"})
               \cup Optional({"last_tax_position"})
      [] service = "FR-105" ->
           Required({"valid_tax_card", "trade_name_registration",
                     "insurance_card", "practice_license"})
               \cup IdentityDocuments \cup CompanyDocuments

DocumentCodes(service) == {d.code : d \in ServiceDocuments(service)}

(* Mutant: an identity card is known by its front alone. *)
BugFrontIsEnough(d, isCompany, form) ==
    \/ d.requirement = "required"
    \/ d.requirement = "company_only" /\ isCompany
    \/ d.requirement = "national_id_only" /\ d.code = "national_id_front"
                                        /\ form.identity = "national_id"
    \/ d.requirement = "passport_only" /\ form.identity = "passport"

(* isDocumentMandatory, in the context of a taxpayer and a form. *)
IsDocumentMandatory(d, isCompany, form) ==
    \/ d.requirement = "required"
    \/ d.requirement = "company_only" /\ isCompany
    \/ d.requirement = "national_id_only" /\ form.identity = "national_id"
    \/ d.requirement = "passport_only" /\ form.identity = "passport"

MissingRequiredDocuments(service, isCompany, form, provided) ==
    {d.code : d \in {e \in ServiceDocuments(service) :
                        IsDocumentMandatory(e, isCompany, form) /\ e.code \notin provided}}
=============================================================================
