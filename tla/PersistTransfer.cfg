SPECIFICATION TransferSpec
INVARIANTS OutputFirst AnswersAreTrue XmpLandsSomewhere OldSidecarYields
CHECK_DEADLOCK FALSE
