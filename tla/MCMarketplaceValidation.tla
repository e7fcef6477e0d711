------------------------ MODULE MCMarketplaceValidation ------------------------
(* Two resumes that may overlap, repeated as often as they are started.      *)
EXTENDS MarketplaceValidation

=============================================================================
