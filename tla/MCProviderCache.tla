---------------------------- MODULE MCProviderCache ----------------------------
(* Small instances of ProviderCache. *)
EXTENDS ProviderCache

Some == {"absent", "other"}
FirstPins == {{}, {"zh"}, {"other"}}
Both == {"archive", "mirror"}
Mirror == {"mirror"}
Absent == {"absent"}
Unpinned == {{}}
==============================================================================
