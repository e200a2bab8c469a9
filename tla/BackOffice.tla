----------------------------- MODULE BackOffice -----------------------------
(***************************************************************************)
(* What operators and visitors do beside the orders, put together: the     *)
(* tables, the published content, the blog, the enquiries, the newsletter  *)
(* and the delivery zones.  Each service has tables of its own and writes  *)
(* no other's, so their steps interleave freely.                           *)
(***************************************************************************)
EXTENDS Catalogues, Publishing, Enquiries, Newsletter, Shipping

backOfficeVars == <<catalogueVars, publishingVars, enquiryVars, newsletterVars, zone>>

BackOfficeInit ==
  /\ CataloguesInit /\ PublishingInit /\ EnquiriesInit /\ NewsletterInit /\ ShippingInit

EditTables ==
  CataloguesNext /\ UNCHANGED <<publishingVars, enquiryVars, newsletterVars, zone>>

EditContent ==
  ContentNext /\ UNCHANGED <<catalogueVars, enquiryVars, newsletterVars, zone>>

RunBlog ==
  BlogNext /\ UNCHANGED <<catalogueVars, enquiryVars, newsletterVars, zone>>

HandleEnquiries ==
  EnquiriesNext /\ UNCHANGED <<catalogueVars, publishingVars, newsletterVars, zone>>

RunNewsletter ==
  NewsletterNext /\ UNCHANGED <<catalogueVars, publishingVars, enquiryVars, zone>>

EditZones ==
  ShippingNext /\ UNCHANGED <<catalogueVars, publishingVars, enquiryVars, newsletterVars>>

BackOfficeNext ==
  EditTables \/ EditContent \/ RunBlog \/ HandleEnquiries \/ RunNewsletter \/ EditZones

BackOfficeSpec == BackOfficeInit /\ [][BackOfficeNext]_backOfficeVars

-----------------------------------------------------------------------------
(* Types *)

\* Every row and every request in progress is of its type: what a request
\* read some time ago can still be written.
BackOfficeTypeOK ==
  /\ CataloguesTypeOK /\ PublishingTypeOK /\ EnquiriesTypeOK /\ NewsletterTypeOK
  /\ ShippingTypeOK
=============================================================================
