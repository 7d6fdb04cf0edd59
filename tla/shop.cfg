SPECIFICATION Spec
INVARIANTS
  TypeOK
  QuoteHonoured
  ReachedOnce
  
  VariantsWhole
  DesignKept
  CatalogueTrue
  AllHear
  KeptForOwner
  
  SettingsServed
  
  ShopSet
  
CHECK_DEADLOCK FALSE
