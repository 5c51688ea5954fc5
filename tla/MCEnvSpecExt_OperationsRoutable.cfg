CONSTANTS
  Templates <- MCTemplates
  BadTemplates <- MCBadTemplates
  Origins <- MCOrigins
  Regexes <- MCRegexes
  BadRegexes <- MCBadRegexes
  AnyMethod <- MCAnyMethod
  Split <- MCSplit
  Specs <- MCSpecs

SPECIFICATION Spec

INVARIANT OperationsRoutable
